---- MODULE Spec2Model ----
(***************************************************************************)
(* A model of the OKCVM execution substrate (kexinoh/free-OKC):            *)
(*   - workspace path resolution and the file / deploy tools that use it   *)
(*     (specification SpecPaths),                                          *)
(*   - the chat endpoint, SessionState.respond and the EventStreamPublisher*)
(*     (specification SpecChat; SpecBus and SpecBusFair for the publisher  *)
(*     used on its own, SpecStreams for the publishers of two requests),   *)
(*   - the Git-backed workspace snapshots (specification SpecSnap),        *)
(*   - the deployment store and its cleanup (specification SpecDeploy;     *)
(*     SpecAllocFair for the deploy calls alone, with fair id draws),      *)
(*   - the SessionStore (specification SpecStore),                         *)
(*   - one SessionState: boot, respond, delete_history (SpecSession;       *)
(*     SpecReset for a session with uploads, up to its reset),             *)
(*   - the serving of deployment assets (specification SpecAssets),        *)
(*   - file uploads (specification SpecUploads; SpecUploadList for         *)
(*     requests that upload a name again),                                 *)
(*   - the process-wide configuration and its endpoints (SpecConfig),      *)
(*   - the ConversationStore (specification SpecConv),                     *)
(*   - requests naming a snapshot, deployment or history entry (SpecLookup)*)
(*   - the preview URLs of a chat turn (specification SpecPreview),        *)
(*   - the browser scroll tools (specification SpecScroll),                *)
(*   - the ToolRegistry and calls made through it (SpecTools),             *)
(*   - one WorkspaceManager and its cleanup (SpecWorkspace),               *)
(*   - the client id of a request (specification SpecClient).              *)
(* Every specification shares the variables below; the actions of one      *)
(* subsystem leave the variables of the others unchanged.                  *)
(***************************************************************************)
EXTENDS Integers, Sequences, FiniteSets, TLC

VARIABLES
    \* ---- workspace paths, file tools, deploy source (SpecPaths)
    links,      \* symlinks on the host: real path of the link |-> real path of its target
    files,      \* real paths of the regular files that exist on the host
    toolCall,   \* the tool invocation in flight and its outcome
    \* ---- chat requests and the streaming bus (SpecChat, SpecBus)
    pub,        \* request |-> its EventStreamPublisher and SSE iterator
    busCalls,   \* publish()/close() calls made directly on the bus (SpecBus)
    rpc,        \* request |-> where its handler / worker thread stands
    rkind,      \* request |-> "json" or "stream"
    rrepl,      \* request |-> its replace_last flag
    tokens,     \* request |-> token events its model call has published
    history,    \* vm.history of the session the requests belong to
    \* ---- one workspace and its Git snapshots (SpecSnap)
    wt,         \* the working tree: file name |-> content, or Absent
    index,      \* the Git index: the tracked files and their staged content
    commits,    \* the commits made so far; a snapshot id is a position in it
    head,       \* the commit HEAD points at
    snapOp,     \* the last workspace operation that completed
    \* ---- the persistent deployment root shared by the sessions (SpecDeploy)
    dirs,       \* deployment id |-> the directory <deployments_root>/<id>, or NoDir
    manifest,   \* the list in <deployments_root>/manifest.json, newest first
    dp,         \* session |-> its deploy_website call in flight
    del,        \* session |-> its delete_history call in flight
    wsGen,      \* session |-> how many workspaces it has had before this one
    nDeploys,   \* deploy_website calls started so far
    created,    \* deployments whose deploy_website call has returned
    purged,     \* deployments a returned delete_history had to remove
    asset,      \* the last deployment asset request and its answer
    \* ---- the session store (SpecStore)
    sessions,   \* SessionStore._sessions: key |-> number of its SessionState, 0 if none
    objs,       \* the SessionState objects constructed so far, by number
    lock,       \* SessionStore._lock: the thread holding it, or Free
    th,         \* thread |-> its SessionStore.get call
    \* ---- one SessionState used by one caller at a time (SpecSession)
    sess,       \* the session: vm.history, the id counter, _booted, its workspace
    sessOp,     \* the last call made on the session, what it saw and returned
    \* ---- deployment assets on the host filesystem (SpecAssets)
    hostFs,      \* the host: its regular files and symlinks, by real path
    assetReq,    \* the last asset request: its id, its path and the answer
    \* ---- uploads of one session (SpecUploads)
    upState,     \* the files under the mount directory and SessionState._uploaded_files
    upReq,       \* the upload request being answered, and its answer
    \* ---- the process-wide configuration (SpecConfig)
    cfg,         \* the global _config: its chat endpoint and its image endpoint
    cfgOp,       \* the last configuration call, what it was given and what it returned
    \* ---- the conversation store
    rows,        \* the rows of the table okc_conversations
    convFs,      \* the directories of the host
    convOp,      \* the last call to the store and what it returned
    \* ---- requests that name a snapshot, a deployment or a history entry
    lookup,      \* the last such request and its answer
    \* ---- preview URLs of a chat turn
    pvBase,      \* workspace.preview_base_url of the configuration
    pvOp,        \* the last preview URL found in a tool output and the URL returned for it
    \* ---- the browser session in static mode
    scrollPos,   \* BrowserSession.scroll_position
    scrollOp,    \* the last scroll call
    \* ---- the tool registry
    registry,    \* ToolRegistry: _specs, _tools and the register() calls made
    toolOp,      \* the last call made through the registry and its outcome
    \* ---- SpecWorkspace: one WorkspaceManager and its directory
    wsm,         \* internal_root on disk and the manager's _cleaned flag
    wsmOp,       \* the last call on the manager and what it returned
    \* ---- SpecClient: the client id of one request
    clientReq,   \* the sources of the request and the client id resolved from them
    \* ---- SpecStreams: what the requests handed to publish()
    sent         \* per request, the events passed to publish(), oldest first, with the calling thread

pathVars == <<links, files, toolCall>>

chatVars == <<pub, busCalls, rpc, rkind, rrepl, tokens, history>>

snapVars == <<wt, index, commits, head, snapOp>>

deployVars == <<dirs, manifest, dp, del, wsGen, nDeploys, created, purged, asset>>

storeVars == <<sessions, objs, lock, th>>

sessVars == <<sess, sessOp>>

assetVars == <<hostFs, assetReq>>

uploadVars == <<upState, upReq>>

configVars == <<cfg, cfgOp>>

convVars == <<rows, convFs, convOp>>

lookupVars == <<lookup>>

previewVars == <<pvBase, pvOp>>

scrollVars == <<scrollPos, scrollOp>>

toolVars == <<registry, toolOp>>

wsmVars == <<wsm, wsmOp>>

clientVars == <<clientReq>>

streamVars == <<sent>>

\* What the actions of each part leave alone.
notPaths == <<chatVars, snapVars, deployVars, storeVars, sessVars, assetVars, uploadVars, configVars, convVars, lookupVars, previewVars, scrollVars, toolVars, wsmVars, clientVars, streamVars>>

notChat == <<pathVars, snapVars, deployVars, storeVars, sessVars, assetVars, uploadVars, configVars, convVars, lookupVars, previewVars, scrollVars, toolVars, wsmVars, clientVars, streamVars>>

\* What the publishers used on their own leave alone.
notChatStream == <<pathVars, snapVars, deployVars, storeVars, sessVars, assetVars, uploadVars, configVars, convVars, lookupVars, previewVars, scrollVars, toolVars, wsmVars, clientVars>>

notSnap == <<pathVars, chatVars, deployVars, storeVars, sessVars, assetVars, uploadVars, configVars, convVars, lookupVars, previewVars, scrollVars, toolVars, wsmVars, clientVars, streamVars>>

notDeploy == <<pathVars, chatVars, snapVars, storeVars, sessVars, assetVars, uploadVars, configVars, convVars, lookupVars, previewVars, scrollVars, toolVars, wsmVars, clientVars, streamVars>>

notStore == <<pathVars, chatVars, snapVars, deployVars, sessVars, assetVars, uploadVars, configVars, convVars, lookupVars, previewVars, scrollVars, toolVars, wsmVars, clientVars, streamVars>>

notSess == <<pathVars, chatVars, snapVars, deployVars, storeVars, assetVars, uploadVars, configVars, convVars, lookupVars, previewVars, scrollVars, toolVars, wsmVars, clientVars, streamVars>>

notAssets == <<pathVars, chatVars, snapVars, deployVars, storeVars, sessVars, uploadVars, configVars, convVars, lookupVars, previewVars, scrollVars, toolVars, wsmVars, clientVars, streamVars>>

notUploads == <<pathVars, chatVars, snapVars, deployVars, storeVars, sessVars, assetVars, configVars, convVars, lookupVars, previewVars, scrollVars, toolVars, wsmVars, clientVars, streamVars>>

notConfig == <<pathVars, chatVars, snapVars, deployVars, storeVars, sessVars, assetVars, uploadVars, convVars, lookupVars, previewVars, scrollVars, toolVars, wsmVars, clientVars, streamVars>>

notConv == <<pathVars, chatVars, snapVars, deployVars, storeVars, sessVars, assetVars, uploadVars, configVars, lookupVars, previewVars, scrollVars, toolVars, wsmVars, clientVars, streamVars>>

notLookup == <<pathVars, chatVars, snapVars, deployVars, storeVars, sessVars, assetVars, uploadVars, configVars, convVars, previewVars, scrollVars, toolVars, wsmVars, clientVars, streamVars>>

\* What a restore asked for over HTTP leaves alone.
notSnapLookup == <<pathVars, chatVars, deployVars, storeVars, sessVars, assetVars, uploadVars, configVars, convVars, previewVars, scrollVars, toolVars, wsmVars, clientVars, streamVars>>

notPreview == <<pathVars, chatVars, snapVars, deployVars, storeVars, sessVars, assetVars, uploadVars, configVars, convVars, lookupVars, scrollVars, toolVars, wsmVars, clientVars, streamVars>>

notScroll == <<pathVars, chatVars, snapVars, deployVars, storeVars, sessVars, assetVars, uploadVars, configVars, convVars, lookupVars, previewVars, toolVars, wsmVars, clientVars, streamVars>>

notTools == <<pathVars, chatVars, snapVars, deployVars, storeVars, sessVars, assetVars, uploadVars, configVars, convVars, lookupVars, previewVars, scrollVars, wsmVars, clientVars, streamVars>>

notWsm == <<pathVars, chatVars, snapVars, deployVars, storeVars, sessVars, assetVars, uploadVars, configVars, convVars, lookupVars, previewVars, scrollVars, toolVars, clientVars, streamVars>>

notClient == <<pathVars, chatVars, snapVars, deployVars, storeVars, sessVars, assetVars, uploadVars, configVars, convVars, lookupVars, previewVars, scrollVars, toolVars, wsmVars, streamVars>>

notStream == <<pathVars, chatVars, snapVars, deployVars, storeVars, sessVars, assetVars, uploadVars, configVars, convVars, lookupVars, previewVars, scrollVars, toolVars, wsmVars, clientVars>>

vars == <<pathVars, chatVars, snapVars, deployVars, storeVars, sessVars, assetVars, uploadVars, configVars, convVars, lookupVars, previewVars, scrollVars, toolVars, wsmVars, clientVars, streamVars>>

(***************************************************************************)
(* Generic helpers                                                         *)
(***************************************************************************)
IsPrefix(p, q) == Len(p) <= Len(q) /\ SubSeq(q, 1, Len(p)) = p

DropFirst(n, q) == SubSeq(q, n + 1, Len(q))

ButLast(q) == IF q = <<>> THEN <<>> ELSE SubSeq(q, 1, Len(q) - 1)

Range(q) == {q[i] : i \in 1..Len(q)}

RECURSIVE SeqsUpTo(_, _)
SeqsUpTo(S, n) ==
    IF n = 0 THEN {<<>>}
    ELSE LET shorter == SeqsUpTo(S, n - 1)
         IN shorter \cup {Append(q, x) : q \in shorter, x \in S}

(***************************************************************************)
(* SpecPaths: WorkspaceManager.resolve, files._ensure_absolute, the file   *)
(* tools and DeployWebsiteTool._resolve_source, for two sessions A and B   *)
(* on one host filesystem.                                                 *)
(***************************************************************************)
MaxPathLen == 2

Sessions == {"A", "B"}

\* Path segments an agent-supplied path is built from.
Segments == {"..", "mnt", "wsA", "wsB", "f", "l"}

WsName(s) == IF s = "A" THEN "wsA" ELSE "wsB"

\* mount = mount_root / "<prefix>-<token>", mount_root = /mnt
Mount(s) == <<"mnt", WsName(s)>>

\* internal_root = (storage_root / mount.name).resolve(); the storage root of
\* this host is the filesystem root.
InternalRoot(s) == <<WsName(s)>>

\* The working directory of the server process.
Cwd == <<"app">>

\* An agent-supplied path string: whether it starts with "/" and its segments.
RawPaths == [abs : BOOLEAN, segs : SeqsUpTo(Segments, MaxPathLen)]

IsEmptyRaw(raw) == ~raw.abs /\ raw.segs = <<>>

\* Path.resolve(): walk the components from the root, following symlinks and
\* popping a component on "..".  Link targets are real paths.
RECURSIVE Walk(_, _, _)
Walk(lnk, cur, rest) ==
    IF rest = <<>> THEN cur
    ELSE LET h == Head(rest)
         IN IF h = ".." THEN Walk(lnk, ButLast(cur), Tail(rest))
            ELSE IF Append(cur, h) \in DOMAIN lnk
                 THEN Walk(lnk, lnk[Append(cur, h)], Tail(rest))
                 ELSE Walk(lnk, Append(cur, h), Tail(rest))

RealPath(lnk, path) == Walk(lnk, <<>>, path)

\* Directories of the host: the root, the working directory, the two workspaces with their output
\* directory, and every directory that holds a file.
FixedDirs ==
    {<<>>, Cwd} \cup {InternalRoot(s) : s \in Sessions}
           \cup {Append(InternalRoot(s), "output") : s \in Sessions}

IsDir(fs, p) == p \in FixedDirs \/ \E f \in fs : IsPrefix(p, f) /\ p # f

Exists(fs, p) == p \in fs \/ IsDir(fs, p)

\* A proper ancestor of p is a regular file, so p cannot be created.
UnderFile(fs, p) == \E f \in fs : IsPrefix(f, p) /\ f # p

ErrEmpty == "file_path cannot be empty"
ErrEscape == "Resolved path escapes the session workspace"

\* candidate.relative_to(internal_root) succeeds.
ContainedUnchecked(root, candidate) == TRUE
Contained(root, candidate) == IsPrefix(root, candidate)

\* The path under internal_root an input is anchored at: an absolute path
\* below the mount loses the mount prefix, any other absolute path loses its
\* leading slash, a relative path is taken as it is.
Anchored(s, raw) ==
    LET relative == IF raw.abs /\ IsPrefix(Mount(s), raw.segs)
                    THEN DropFirst(Len(Mount(s)), raw.segs)
                    ELSE raw.segs
    IN InternalRoot(s) \o relative

\* WorkspaceManager.resolve
WsResolve(lnk, s, raw) ==
    IF IsEmptyRaw(raw) THEN [ok |-> FALSE, path |-> <<>>, err |-> ErrEmpty]
    ELSE LET candidate == RealPath(lnk, Anchored(s, raw))
         IN IF Contained(InternalRoot(s), candidate)
            THEN [ok |-> TRUE, path |-> candidate, err |-> ""]
            ELSE [ok |-> FALSE, path |-> <<>>, err |-> ErrEscape]

\* files._ensure_absolute with a workspace bound: a WorkspaceError is turned
\* into a ToolError only for a relative path; an absolute path falls through
\* and is returned as the host path it names.
EnsureAbsolute(lnk, s, raw) ==
    LET r == WsResolve(lnk, s, raw)
    IN IF r.ok THEN r
       ELSE IF ~raw.abs THEN [ok |-> FALSE, path |-> <<>>, err |-> r.err]
       ELSE [ok |-> TRUE, path |-> RealPath(lnk, raw.segs), err |-> ""]

\* DeployWebsiteTool._resolve_source
ResolveSource(lnk, fs, s, raw) ==
    LET host == RealPath(lnk, (IF raw.abs THEN <<>> ELSE Cwd) \o raw.segs)
        r == WsResolve(lnk, s, raw)
    IN IF raw.abs /\ Exists(fs, host) THEN host
       ELSE IF r.ok /\ Exists(fs, r.path) THEN r.path
       ELSE host

NoCall ==
    [op |-> "none", sid |-> "A", raw |-> [abs |-> FALSE, segs |-> <<>>],
     ok |-> FALSE, err |-> "", path |-> <<>>, access |-> "none"]

Outcome(op, s, raw, ok, err, path, access) ==
    [op |-> op, sid |-> s, raw |-> raw, ok |-> ok, err |-> err,
     path |-> path, access |-> access]

InitPaths ==
    /\ links = [p \in {} |-> <<>>]
    /\ files = {<<"f">>}
    /\ toolCall = NoCall

\* Where a session's agent can point a symlink.
LinkTargets == {<<>>, <<"wsA">>, <<"wsB">>}

\* The agent of session s creates the symlink <internal_root>/l through the
\* shell tool.
MakeSymlink(s, target) ==
    /\ toolCall.op = "none"
    /\ Append(InternalRoot(s), "l") \notin DOMAIN links
    /\ links' = [p \in DOMAIN links \cup {Append(InternalRoot(s), "l")} |->
                    IF p = Append(InternalRoot(s), "l") THEN target ELSE links[p]]
    /\ toolCall' = Outcome("symlink", s, NoCall.raw, TRUE, "", <<>>, "none")
    /\ UNCHANGED files
    /\ UNCHANGED notPaths

\* workspace.resolve(raw) called on behalf of session s.
ResolvePath(s, raw) ==
    /\ toolCall.op = "none"
    /\ LET r == WsResolve(links, s, raw)
       IN toolCall' = Outcome("resolve", s, raw, r.ok, r.err, r.path, "none")
    /\ UNCHANGED <<links, files>>
    /\ UNCHANGED notPaths

\* ReadFileTool.call
ReadFile(s, raw) ==
    /\ toolCall.op = "none"
    /\ LET r == EnsureAbsolute(links, s, raw)
       IN toolCall' =
            IF IsEmptyRaw(raw)
            THEN Outcome("read", s, raw, FALSE, "'file_path' is required", <<>>, "none")
            ELSE IF ~r.ok THEN Outcome("read", s, raw, FALSE, r.err, <<>>, "none")
            ELSE IF ~Exists(files, r.path)
                 THEN Outcome("read", s, raw, FALSE, "File not found", r.path, "none")
            ELSE IF IsDir(files, r.path)
                 THEN Outcome("read", s, raw, FALSE, "IsADirectoryError", r.path, "none")
                 ELSE Outcome("read", s, raw, TRUE, "", r.path, "read")
    /\ UNCHANGED <<links, files>>
    /\ UNCHANGED notPaths

\* The files whose existence the model follows: the file named f in the host
\* root and in each workspace root.  Writes to other places are not explored.
TrackedFiles == {<<"f">>} \cup {Append(InternalRoot(s), "f") : s \in Sessions}

\* WriteFileTool.call: creates the parents and writes the file.
WriteFile(s, raw) ==
    /\ toolCall.op = "none"
    /\ LET r == EnsureAbsolute(links, s, raw)
       IN IF IsEmptyRaw(raw)
          THEN /\ toolCall' = Outcome("write", s, raw, FALSE,
                                      "'file_path' and 'content' are required", <<>>, "none")
               /\ UNCHANGED files
          ELSE IF ~r.ok
          THEN /\ toolCall' = Outcome("write", s, raw, FALSE, r.err, <<>>, "none")
               /\ UNCHANGED files
          ELSE IF IsDir(files, r.path) \/ UnderFile(files, r.path)
          THEN /\ toolCall' = Outcome("write", s, raw, FALSE, "OSError", r.path, "none")
               /\ UNCHANGED files
          ELSE /\ r.path \in TrackedFiles
               /\ files' = files \cup {r.path}
               /\ toolCall' = Outcome("write", s, raw, TRUE, "", r.path, "write")
    /\ UNCHANGED links
    /\ UNCHANGED notPaths

\* EditFileTool.call: reads the file and writes it back.
EditFile(s, raw) ==
    /\ toolCall.op = "none"
    /\ LET r == EnsureAbsolute(links, s, raw)
       IN toolCall' =
            IF IsEmptyRaw(raw)
            THEN Outcome("edit", s, raw, FALSE,
                         "'file_path', 'old_string', and 'new_string' are required",
                         <<>>, "none")
            ELSE IF ~r.ok THEN Outcome("edit", s, raw, FALSE, r.err, <<>>, "none")
            ELSE IF ~Exists(files, r.path)
                 THEN Outcome("edit", s, raw, FALSE, "File not found", r.path, "none")
            ELSE IF IsDir(files, r.path)
                 THEN Outcome("edit", s, raw, FALSE, "IsADirectoryError", r.path, "none")
                 ELSE Outcome("edit", s, raw, TRUE, "", r.path, "write")
    /\ UNCHANGED <<links, files>>
    /\ UNCHANGED notPaths

\* DeployWebsiteTool.call up to the copy of the source tree.
DeploySource(s, raw) ==
    /\ toolCall.op = "none"
    /\ LET src == ResolveSource(links, files, s, raw)
       IN toolCall' =
            IF IsEmptyRaw(raw)
            THEN Outcome("deploy", s, raw, FALSE, "'directory' is required", <<>>, "none")
            ELSE IF ~IsDir(files, src)
                 THEN Outcome("deploy", s, raw, FALSE, "Directory not found", src, "none")
                 ELSE Outcome("deploy", s, raw, TRUE, "", src, "read")
    /\ UNCHANGED <<links, files>>
    /\ UNCHANGED notPaths

\* ToolRegistry.call returns the outcome to the agent loop.
ToolReturn ==
    /\ toolCall.op # "none"
    /\ toolCall' = NoCall
    /\ UNCHANGED <<links, files>>
    /\ UNCHANGED notPaths

\* The arguments the next tool call can carry: none while one is in flight.
NextArgs == IF toolCall.op = "none" THEN RawPaths ELSE {}

NextPaths ==
    \/ \E s \in Sessions, t \in LinkTargets : MakeSymlink(s, t)
    \/ \E s \in Sessions, raw \in NextArgs : ResolvePath(s, raw)
    \/ \E s \in Sessions, raw \in NextArgs : ReadFile(s, raw)
    \/ \E s \in Sessions, raw \in NextArgs : WriteFile(s, raw)
    \/ \E s \in Sessions, raw \in NextArgs : EditFile(s, raw)
    \/ \E s \in Sessions, raw \in NextArgs : DeploySource(s, raw)
    \/ ToolReturn

(***************************************************************************)
(* Claims about path resolution and the tools built on it                  *)
(***************************************************************************)
Other(s) == CHOOSE t \in Sessions : t # s

FileOps == {"read", "write", "edit"}

\* C1: whatever the symlinks in place, resolve(p) either fails with a
\* workspace error or returns a path whose real location lies in the
\* internal_root of the workspace; an input whose anchored location leaves
\* internal_root (through ".." or a symlink) fails, and the empty path fails.
C1_ResolveStaysInside ==
    toolCall.op = "resolve" =>
        LET root == InternalRoot(toolCall.sid)
        IN /\ toolCall.ok =>
                IsPrefix(root, RealPath(links, toolCall.path))
           /\ ~toolCall.ok => toolCall.err \in {ErrEmpty, ErrEscape}
           /\ IsEmptyRaw(toolCall.raw) => ~toolCall.ok
           /\ ~IsPrefix(root, RealPath(links, Anchored(toolCall.sid, toolCall.raw)))
                => ~toolCall.ok

\* C1 witness: session A resolved l/f while its symlink l points at the
\* workspace of session B, and resolve failed.
C1_Witness ==
    /\ toolCall.op = "resolve"
    /\ toolCall.sid = "A"
    /\ toolCall.raw = [abs |-> FALSE, segs |-> <<"l", "f">>]
    /\ <<"wsA", "l">> \in DOMAIN links
    /\ links[<<"wsA", "l">>] = <<"wsB">>
    /\ ~toolCall.ok
    /\ toolCall.err = ErrEscape

\* C8: no operation performed for a session (path resolution, file read,
\* write or edit, choice of a deploy source) succeeds on a path beneath the
\* internal_root of the other session.
C8_NoCrossSessionAccess ==
    (toolCall.op \in FileOps \cup {"resolve", "deploy"} /\ toolCall.ok) =>
        ~IsPrefix(InternalRoot(Other(toolCall.sid)), toolCall.path)

\* C9: a file tool given a path that its workspace rejects fails, carries
\* the workspace's message (for a non-empty path), and touches no file.
C9_RejectedPathFails ==
    (toolCall.op \in FileOps
        /\ ~WsResolve(links, toolCall.sid, toolCall.raw).ok) =>
            /\ ~toolCall.ok
            /\ toolCall.access = "none"
            /\ ~IsEmptyRaw(toolCall.raw) =>
                  toolCall.err = WsResolve(links, toolCall.sid, toolCall.raw).err

(***************************************************************************)
(* The streaming bus: EventStreamPublisher and its iter_sse() consumer.    *)
(* A publisher is a record; publish(), close(), the callbacks handed to    *)
(* loop.call_soon_threadsafe and the steps of iter_sse() are functions on  *)
(* it.  Fields:                                                            *)
(*   closed      self._closed                                              *)
(*   calls       callbacks scheduled on the event loop, oldest first       *)
(*   queue       self._queue                                               *)
(*   emitted     frames iter_sse() has yielded                             *)
(*   iter        "none" | "waiting" (in queue.get) | "yielded" | "ended"   *)
(*   closeCalled close() has been called (history variable)                *)
(*   published   events passed to publish() before close() was called      *)
(*   accepted    events put on the queue                                   *)
(*   consumed    items iter_sse() has taken off the queue                  *)
(***************************************************************************)
Sentinel == "None"

EventTypes == {"token", "final", "error", "stop"}

NoPublisher ==
    [closed |-> FALSE, calls |-> <<>>, queue |-> <<>>, emitted |-> <<>>,
     iter |-> "none", closeCalled |-> FALSE, published |-> <<>>, accepted |-> <<>>,
     consumed |-> <<>>]

\* EventStreamPublisher.__init__, and the response starting to iterate.
NewPublisher == [NoPublisher EXCEPT !.iter = "waiting"]

\* EventStreamPublisher.publish
PubPublish(p, ev) ==
    LET q == IF p.closeCalled THEN p ELSE [p EXCEPT !.published = Append(@, ev)]
    IN IF p.closed THEN q
       ELSE [q EXCEPT !.calls = Append(@, [kind |-> "enqueue", ev |-> ev])]

\* A close() that schedules its sentinel on every call.
PubCloseEveryTime(p) ==
    [p EXCEPT !.closed = TRUE, !.closeCalled = TRUE,
              !.calls = Append(@, [kind |-> "finalise", ev |-> Sentinel])]

\* EventStreamPublisher.close
PubCloseNoSentinel(p) == [p EXCEPT !.closed = TRUE, !.closeCalled = TRUE]
PubClose(p) ==
    IF p.closed THEN [p EXCEPT !.closeCalled = TRUE]
    ELSE [p EXCEPT !.closed = TRUE, !.closeCalled = TRUE,
                   !.calls = Append(@, [kind |-> "finalise", ev |-> Sentinel])]

\* A callback that puts its event at the head of the queue.
PubRunCallbackAtFront(p) ==
    LET c == Head(p.calls)
        rest == [p EXCEPT !.calls = Tail(@)]
    IN IF c.kind = "finalise" THEN [rest EXCEPT !.queue = Append(@, Sentinel)]
       ELSE IF ~p.closed
            THEN [rest EXCEPT !.queue = <<c.ev>> \o @, !.accepted = Append(@, c.ev)]
            ELSE rest

\* The event loop runs the oldest scheduled callback: _enqueue or _finalise.
PubRunCallback(p) ==
    LET c == Head(p.calls)
        rest == [p EXCEPT !.calls = Tail(@)]
    IN IF c.kind = "finalise" THEN [rest EXCEPT !.queue = Append(@, Sentinel)]
       ELSE IF ~p.closed
            THEN [rest EXCEPT !.queue = Append(@, c.ev), !.accepted = Append(@, c.ev)]
            ELSE rest

\* event.get("type") in {"final", "error"}
IsTerminal(ev) == ev \in {"final", "error"}

\* iter_sse: queue.get() returns; the sentinel ends the iterator, any other
\* event is yielded as a frame.
PubIterGet(p) ==
    LET e == Head(p.queue)
        rest == [p EXCEPT !.queue = Tail(@), !.consumed = Append(@, e)]
    IN IF e = Sentinel THEN [rest EXCEPT !.iter = "ended", !.closed = TRUE]
       ELSE [rest EXCEPT !.emitted = Append(@, e), !.iter = "yielded"]

\* iter_sse resumed after a yield: a terminal event ends it (the finally
\* clause sets _closed), otherwise it waits for the next event.
PubIterResume(p) ==
    IF IsTerminal(p.emitted[Len(p.emitted)])
    THEN [p EXCEPT !.iter = "ended", !.closed = TRUE]
    ELSE [p EXCEPT !.iter = "waiting"]

\* iter_sse is closed while suspended (the response was cancelled when its
\* client went away): the finally clause sets _closed.
PubIterStop(p) == [p EXCEPT !.iter = "ended", !.closed = TRUE]

(***************************************************************************)
(* SpecChat: POST /api/chat for one session.  Each request is handled on   *)
(* the event loop and runs SessionState.respond on a worker thread         *)
(* (asyncio.to_thread); a streaming request gets its own publisher.        *)
(***************************************************************************)
Requests == {"r1", "r2"}

MaxTokens == 1

Responding == {"discard", "invoke", "record_user", "record_assistant", "finish"}

InitChat ==
    /\ pub = [r \in Requests |-> NoPublisher]
    /\ busCalls = 0
    /\ rpc = [r \in Requests |-> "new"]
    /\ rkind = [r \in Requests |-> "json"]
    /\ rrepl = [r \in Requests |-> FALSE]
    /\ tokens = [r \in Requests |-> 0]
    /\ history = <<>>

\* chat(): the handler obtains the session, decides on streaming, and hands
\* respond to a worker thread (directly, or through the task _run_stream).
ChatReceive(r, stream, repl) ==
    /\ rpc[r] = "new"
    /\ rpc' = [rpc EXCEPT ![r] = "queued"]
    /\ rkind' = [rkind EXCEPT ![r] = IF stream THEN "stream" ELSE "json"]
    /\ rrepl' = [rrepl EXCEPT ![r] = repl]
    /\ pub' = [pub EXCEPT ![r] = IF stream THEN NewPublisher ELSE NoPublisher]
    /\ UNCHANGED <<busCalls, tokens, history>>
    /\ UNCHANGED notChat

\* The guard under which a worker thread may enter respond(): the code takes
\* no lock, so there is none.
MayEnterRespond(r) == TRUE

\* The worker thread enters SessionState.respond.
WorkerStart(r) ==
    /\ rpc[r] = "queued"
    /\ MayEnterRespond(r)
    /\ rpc' = [rpc EXCEPT ![r] = IF rrepl[r] THEN "discard" ELSE "invoke"]
    /\ UNCHANGED <<pub, busCalls, rkind, rrepl, tokens, history>>
    /\ UNCHANGED notChat

\* vm.discard_last_exchange(): drop the trailing user/assistant pair.
DiscardLastExchange(h) ==
    IF /\ Len(h) >= 2
       /\ h[Len(h)].role = "assistant"
       /\ h[Len(h) - 1].role = "user"
    THEN SubSeq(h, 1, Len(h) - 2)
    ELSE h

Discard(r) ==
    /\ rpc[r] = "discard"
    /\ history' = DiscardLastExchange(history)
    /\ rpc' = [rpc EXCEPT ![r] = "invoke"]
    /\ UNCHANGED <<pub, busCalls, rkind, rrepl, tokens>>
    /\ UNCHANGED notChat

\* LangChainStreamingHandler.on_llm_new_token, called on the worker thread
\* while the model call runs.
Token(r) ==
    /\ rpc[r] = "invoke"
    /\ rkind[r] = "stream"
    /\ tokens[r] < MaxTokens
    /\ tokens' = [tokens EXCEPT ![r] = @ + 1]
    /\ pub' = [pub EXCEPT ![r] = PubPublish(@, "token")]
    /\ UNCHANGED <<busCalls, rpc, rkind, rrepl, history>>
    /\ UNCHANGED notChat

\* VirtualMachine.execute: chain.invoke returns, or raises and execute
\* returns the error reply without touching the history.
InvokeDone(r, success) ==
    /\ rpc[r] = "invoke"
    /\ rpc' = [rpc EXCEPT ![r] = IF success THEN "record_user" ELSE "finish"]
    /\ UNCHANGED <<pub, busCalls, rkind, rrepl, tokens, history>>
    /\ UNCHANGED notChat

RecordUser(r) ==
    /\ rpc[r] = "record_user"
    /\ history' = Append(history, [role |-> "user", turn |-> r])
    /\ rpc' = [rpc EXCEPT ![r] = "record_assistant"]
    /\ UNCHANGED <<pub, busCalls, rkind, rrepl, tokens>>
    /\ UNCHANGED notChat

RecordAssistant(r) ==
    /\ rpc[r] = "record_assistant"
    /\ history' = Append(history, [role |-> "assistant", turn |-> r])
    /\ rpc' = [rpc EXCEPT ![r] = "finish"]
    /\ UNCHANGED <<pub, busCalls, rkind, rrepl, tokens>>
    /\ UNCHANGED notChat

\* respond() builds its payload and returns, or raises (a failing snapshot).
\* The worker's future completes: a JSON request is answered; for a
\* streaming request the wake-up of _run_stream is scheduled on the loop.
Finish(r, raised) ==
    /\ rpc[r] = "finish"
    /\ IF rkind[r] = "stream"
       THEN /\ rpc' = [rpc EXCEPT ![r] = IF raised THEN "raised" ELSE "returned"]
            /\ pub' = [pub EXCEPT ![r].calls =
                          Append(@, [kind |-> "resume", ev |-> Sentinel])]
       ELSE /\ rpc' = [rpc EXCEPT ![r] = IF raised THEN "http500" ELSE "json200"]
            /\ UNCHANGED pub
    /\ UNCHANGED <<busCalls, rkind, rrepl, tokens, history>>
    /\ UNCHANGED notChat

\* _run_stream after the await: publish final (or error), publish stop,
\* close -- one run on the loop thread, with no await in between.
RunStreamTail(p, raised) ==
    PubClose(PubPublish(PubPublish(p, IF raised THEN "error" ELSE "final"), "stop"))

ChatResume(r) ==
    /\ pub[r].calls # <<>>
    /\ Head(pub[r].calls).kind = "resume"
    /\ pub' = [pub EXCEPT ![r] =
                  RunStreamTail([@ EXCEPT !.calls = Tail(@)], rpc[r] = "raised")]
    /\ rpc' = [rpc EXCEPT ![r] = IF rpc[r] = "raised" THEN "stream_failed" ELSE "stream_done"]
    /\ UNCHANGED <<busCalls, rkind, rrepl, tokens, history>>
    /\ UNCHANGED notChat

\* The event loop runs the oldest callback of a publisher.
LoopRun(r) ==
    /\ pub[r].calls # <<>>
    /\ Head(pub[r].calls).kind # "resume"
    /\ pub' = [pub EXCEPT ![r] = PubRunCallback(@)]
    /\ UNCHANGED <<busCalls, rpc, rkind, rrepl, tokens, history>>
    /\ UNCHANGED notChat

IterGet(r) ==
    /\ pub[r].iter = "waiting"
    /\ pub[r].queue # <<>>
    /\ pub' = [pub EXCEPT ![r] = PubIterGet(@)]
    /\ UNCHANGED <<busCalls, rpc, rkind, rrepl, tokens, history>>
    /\ UNCHANGED notChat

IterResume(r) ==
    /\ pub[r].iter = "yielded"
    /\ pub' = [pub EXCEPT ![r] = PubIterResume(@)]
    /\ UNCHANGED <<busCalls, rpc, rkind, rrepl, tokens, history>>
    /\ UNCHANGED notChat

NextChat ==
    \/ \E r \in Requests, stream \in BOOLEAN, repl \in BOOLEAN : ChatReceive(r, stream, repl)
    \/ \E r \in Requests : WorkerStart(r)
    \/ \E r \in Requests : Discard(r)
    \/ \E r \in Requests : Token(r)
    \/ \E r \in Requests, success \in BOOLEAN : InvokeDone(r, success)
    \/ \E r \in Requests : RecordUser(r)
    \/ \E r \in Requests : RecordAssistant(r)
    \/ \E r \in Requests, raised \in BOOLEAN : Finish(r, raised)
    \/ \E r \in Requests : ChatResume(r)
    \/ \E r \in Requests : LoopRun(r)
    \/ \E r \in Requests : IterGet(r)
    \/ \E r \in Requests : IterResume(r)

(***************************************************************************)
(* SpecBus: one EventStreamPublisher used directly, as the repository's    *)
(* streaming tests do: a caller publishes events and closes, letting the   *)
(* event loop run between any two calls or not.                            *)
(***************************************************************************)
BusId == "r1"

MaxApiCalls == 3

InitBus ==
    /\ pub = [r \in Requests |-> IF r = BusId THEN NewPublisher ELSE NoPublisher]
    /\ busCalls = 0
    /\ rpc = [r \in Requests |-> "new"]
    /\ rkind = [r \in Requests |-> "stream"]
    /\ rrepl = [r \in Requests |-> FALSE]
    /\ tokens = [r \in Requests |-> 0]
    /\ history = <<>>

ApiPublish(ev) ==
    /\ busCalls < MaxApiCalls
    /\ busCalls' = busCalls + 1
    /\ pub' = [pub EXCEPT ![BusId] = PubPublish(@, ev)]
    /\ UNCHANGED <<rpc, rkind, rrepl, tokens, history>>
    /\ UNCHANGED notChat

ApiClose ==
    /\ busCalls < MaxApiCalls
    /\ busCalls' = busCalls + 1
    /\ pub' = [pub EXCEPT ![BusId] = PubClose(@)]
    /\ UNCHANGED <<rpc, rkind, rrepl, tokens, history>>
    /\ UNCHANGED notChat

BusRunCallback ==
    /\ pub[BusId].calls # <<>>
    /\ pub' = [pub EXCEPT ![BusId] = PubRunCallback(@)]
    /\ UNCHANGED <<busCalls, rpc, rkind, rrepl, tokens, history>>
    /\ UNCHANGED notChat

BusIterGet == IterGet(BusId)

BusIterResume == IterResume(BusId)

NextBus ==
    \/ \E ev \in EventTypes : ApiPublish(ev)
    \/ ApiClose
    \/ BusRunCallback
    \/ BusIterGet
    \/ BusIterResume

(***************************************************************************)
(* Claims about chat requests and the streaming bus                        *)
(***************************************************************************)
Last(q) == q[Len(q)]

\* Position of the first final/error event of q, or Len(q) if it has none.
RECURSIVE FirstTerminal(_, _)
FirstTerminal(q, i) ==
    IF i >= Len(q) THEN Len(q)
    ELSE IF IsTerminal(q[i]) THEN i
    ELSE FirstTerminal(q, i + 1)

\* C2: for one SessionState at most one respond() call is executing at any
\* time; concurrent chat requests of the same client are served one after
\* another.
C2_OneRespondAtATime ==
    Cardinality({r \in Requests : rpc[r] \in Responding}) <= 1

\* C3: every event passed to publish() before close() is called has been
\* emitted by iter_sse() when the stream ends -- here for the events up to
\* and including the first final/error one, on which the iterator stops by
\* design -- so a streaming request whose respond() returned has delivered
\* its final frame.
C3_PublishedBeforeCloseIsEmitted ==
    \A r \in Requests :
        pub[r].iter = "ended" =>
            LET n == FirstTerminal(pub[r].published, 1)
            IN /\ Len(pub[r].emitted) >= n
               /\ SubSeq(pub[r].emitted, 1, n) = SubSeq(pub[r].published, 1, n)
               /\ rpc[r] = "stream_done" => "final" \in {pub[r].emitted[i] : i \in 1..Len(pub[r].emitted)}

\* C4: in a stream where final and then stop are published -- and both reach
\* the queue, so that no event was lost on the way -- the iterator emits
\* final, then stop, and terminates only after emitting stop.
C4_StopIsLastFrame ==
    \A r \in Requests :
        LET p == pub[r]
        IN (/\ p.iter = "ended"
            /\ \E i, j \in 1..Len(p.accepted) :
                  i < j /\ p.accepted[i] = "final" /\ p.accepted[j] = "stop")
           => /\ p.emitted # <<>>
              /\ Last(p.emitted) = "stop"
              /\ "final" \in {p.emitted[i] : i \in 1..Len(p.emitted)}

\* What ends iter_sse() when dequeued.
Stoppers == {Sentinel, "final", "error"}

C5_StopsOnFirstStopper ==
    LET p == pub[BusId]
    IN /\ \A i \in 1..Len(p.consumed) : p.consumed[i] \in Stoppers => i = Len(p.consumed)
       /\ p.iter = "waiting" => \A i \in 1..Len(p.consumed) : p.consumed[i] \notin Stoppers
       /\ p.iter = "ended" => p.consumed # <<>> /\ Last(p.consumed) \in Stoppers
       /\ p.emitted = SelectSeq(p.consumed, LAMBDA e : e # Sentinel)
       /\ (p.closeCalled /\ p.published = <<>>) => p.emitted = <<>>

C34_TurnEntriesAdjacent ==
    /\ \A r \in Requests :
          rpc[r] \in {"queued", "discard", "invoke"} =>
              \A i \in 1..Len(history) : history[i].turn # r
    /\ \A i \in 1..Len(history) :
          history[i].role = "user" =>
              \/ /\ i < Len(history)
                 /\ history[i + 1] = [role |-> "assistant", turn |-> history[i].turn]
              \/ /\ i = Len(history)
                 /\ rpc[history[i].turn] = "record_assistant"

\* C34 case: the turns of two requests, one after the other.
C34_Case ==
    /\ Len(history) = 4
    /\ history[1].turn = history[2].turn
    /\ history[3].turn = history[4].turn

(***************************************************************************)
(* SpecStreams: the publishers of two streaming requests, each handed      *)
(* events by the worker thread of its request (LangChainStreamingHandler)  *)
(* and by the event-loop thread (_run_stream); both threads go through     *)
(* publish() and loop.call_soon_threadsafe.                                *)
(***************************************************************************)
PublishThreads == {"worker", "loop"}

\* The handler publishes tokens on the worker thread; _run_stream publishes
\* final, error and stop on the loop thread.
PublishedOn(ev) == IF ev = "token" THEN "worker" ELSE "loop"

InitStream == sent = [r \in Requests |-> <<>>]

\* Both requests have been received as streaming ones.
InitBothStreaming ==
    /\ pub = [r \in Requests |-> NewPublisher]
    /\ busCalls = 0
    /\ rpc = [r \in Requests |-> "new"]
    /\ rkind = [r \in Requests |-> "stream"]
    /\ rrepl = [r \in Requests |-> FALSE]
    /\ tokens = [r \in Requests |-> 0]
    /\ history = <<>>

\* publish(event) on the publisher of request r, called on `thread`
StreamPublish(r, ev, thread) ==
    /\ thread = PublishedOn(ev)
    /\ busCalls < MaxApiCalls
    /\ busCalls' = busCalls + 1
    /\ pub' = [pub EXCEPT ![r] = PubPublish(@, ev)]
    /\ sent' = [sent EXCEPT ![r] = Append(@, [ev |-> ev, thread |-> thread])]
    /\ UNCHANGED <<rpc, rkind, rrepl, tokens, history>>
    /\ UNCHANGED notChatStream

\* close() on the publisher of request r
StreamClose(r) ==
    /\ busCalls < MaxApiCalls
    /\ busCalls' = busCalls + 1
    /\ pub' = [pub EXCEPT ![r] = PubClose(@)]
    /\ UNCHANGED <<rpc, rkind, rrepl, tokens, history>>
    /\ UNCHANGED notChat

\* The client of request r disconnects: its iterator stops.
StreamDisconnect(r) ==
    /\ pub[r].iter \in {"waiting", "yielded"}
    /\ pub' = [pub EXCEPT ![r] = PubIterStop(@)]
    /\ UNCHANGED <<busCalls, rpc, rkind, rrepl, tokens, history>>
    /\ UNCHANGED notChat

NextStreams ==
    \/ \E r \in Requests, ev \in EventTypes, thread \in PublishThreads :
          StreamPublish(r, ev, thread)
    \/ \E r \in Requests : StreamClose(r)
    \/ \E r \in Requests : StreamDisconnect(r)
    \/ \E r \in Requests : LoopRun(r)
    \/ \E r \in Requests : IterGet(r)
    \/ \E r \in Requests : IterResume(r)

\* The events request r passed to publish(), oldest first.
SentEvents(r) == [i \in 1..Len(sent[r]) |-> sent[r][i].ev]

\* C33: the events of one chat request are delivered to its client in the
\* order in which they were published, whether publish() is called from a
\* worker thread or from the event-loop thread, and no event published for
\* one request is delivered on the stream of another: what a stream has
\* delivered is a prefix of what its own request published.
C33_PublishOrderPerRequest ==
    \A r \in Requests : IsPrefix(pub[r].emitted, SentEvents(r))

\* C33 witness: one stream has delivered a token published by the worker
\* and then a stop published on the loop, while the other stream delivered
\* the one event of its own request.
C33_Witness ==
    /\ sent["r1"] = <<[ev |-> "token", thread |-> "worker"], [ev |-> "stop", thread |-> "loop"]>>
    /\ pub["r1"].emitted = <<"token", "stop">>
    /\ sent["r2"] = <<[ev |-> "final", thread |-> "loop"]>>
    /\ pub["r2"].emitted = <<"final">>

\* The number of events e in q.
CountOf(q, e) == Cardinality({i \in 1..Len(q) : q[i] = e})

\* The sentinels of publisher p: scheduled, queued or taken off the queue.
SentinelCount(p) ==
    Cardinality({i \in 1..Len(p.calls) : p.calls[i].kind = "finalise"})
        + CountOf(p.queue, Sentinel) + CountOf(p.consumed, Sentinel)

\* C35: any number of close() calls enqueue at most one sentinel; once
\* close() has been called or the consumer has stopped iterating, a later
\* publish() schedules and enqueues nothing; and publish() can always be
\* called and returns, so the worker calling it goes on.
C35_CloseOnceThenSilent ==
    /\ [](\A r \in Requests : SentinelCount(pub[r]) <= 1)
    /\ [][\A r \in Requests :
             (pub[r].closed /\ sent'[r] # sent[r]) =>
                 /\ pub'[r].calls = pub[r].calls
                 /\ pub'[r].queue = pub[r].queue
                 /\ pub'[r].emitted = pub[r].emitted]_vars
    /\ [](\A r \in Requests :
             busCalls < MaxApiCalls => ENABLED StreamPublish(r, "token", "worker"))

\* C35 witness: close() was called twice on a publisher and then the worker
\* published a token on it; one sentinel, and the token went nowhere.
C35_Witness ==
    /\ busCalls = 3
    /\ pub["r1"].closeCalled
    /\ sent["r1"] = <<[ev |-> "token", thread |-> "worker"]>>
    /\ pub["r1"].published = <<>>
    /\ sent["r2"] = <<>> /\ ~pub["r2"].closeCalled
    /\ SentinelCount(pub["r1"]) = 1

\* C35 witness of the disconnect: the consumer stopped with nothing
\* delivered, close() was never called, and the worker published after that.
C35_DisconnectCase ==
    /\ pub["r1"].iter = "ended" /\ pub["r1"].consumed = <<>>
    /\ ~pub["r1"].closeCalled
    /\ Len(sent["r1"]) = 2
    /\ pub["r1"].accepted = <<>> /\ pub["r1"].calls = <<>>

(***************************************************************************)
(* SpecSnap: GitWorkspaceState.  The workspace directory is a Git working  *)
(* tree; snapshot() is `git add -A` and `git commit --allow-empty`,        *)
(* restore() is `git reset --hard <id>` and `git clean -fd`.  The agent's  *)
(* tools write and delete files in between, .gitignore included.           *)
(***************************************************************************)
Absent == "absent"

IgnoreFile == ".gitignore"

\* Regular files of the workspace and what they can contain.
FileNames == {"a.txt", "secret.txt"}

Contents == {"v1", "v2"}

\* What a .gitignore can contain: one line, naming a file.
IgnoreContents == {"secret.txt"}

TreeNames == FileNames \cup {IgnoreFile}

EmptyTree == [n \in TreeNames |-> Absent]

MaxSnapshots == 2

\* A path is ignored if the .gitignore of the tree lists it.
IsIgnored(tree, n) == tree[IgnoreFile] = n

\* git add -A: stage every change of the working tree, except that an
\* untracked file which is ignored stays untracked.
GitAddAllNoIgnore(tree, idx) == tree
GitAddAll(tree, idx) ==
    [n \in TreeNames |->
        IF idx[n] = Absent /\ IsIgnored(tree, n) THEN Absent ELSE tree[n]]

\* git reset --hard <target> followed by git clean -fd: tracked files take
\* the target's content, files tracked before and not in the target go,
\* untracked files go unless they are ignored (clean runs without -x).
GitResetClean(tree, idx, target) ==
    [n \in TreeNames |->
        IF target[n] # Absent THEN target[n]
        ELSE IF idx[n] # Absent THEN Absent
        ELSE IF IsIgnored(target, n) THEN tree[n]
        ELSE Absent]

\* _initialise_repo: git init in the fresh workspace, then a first commit.
InitSnap ==
    /\ wt = EmptyTree
    /\ index = EmptyTree
    /\ commits = <<[tree |-> EmptyTree, seen |-> EmptyTree, parent |-> 0, snapshot |-> FALSE]>>
    /\ head = 1
    /\ snapOp = [op |-> "init", id |-> 1]

\* A tool writes (creates or overwrites) a file of the workspace.
WsWrite(n, c) ==
    /\ wt[n] # c
    /\ wt' = [wt EXCEPT ![n] = c]
    /\ snapOp' = [op |-> "write", id |-> 0]
    /\ UNCHANGED <<index, commits, head>>
    /\ UNCHANGED notSnap

\* A tool deletes a file of the workspace.
WsDelete(n) ==
    /\ wt[n] # Absent
    /\ wt' = [wt EXCEPT ![n] = Absent]
    /\ snapOp' = [op |-> "delete", id |-> 0]
    /\ UNCHANGED <<index, commits, head>>
    /\ UNCHANGED notSnap

\* GitWorkspaceState.snapshot: returns the id of the new commit.
Snapshot ==
    /\ Len(commits) <= MaxSnapshots
    /\ index' = GitAddAll(wt, index)
    /\ commits' = Append(commits, [tree |-> index', seen |-> wt, parent |-> head,
                                   snapshot |-> TRUE])
    /\ head' = Len(commits) + 1
    /\ snapOp' = [op |-> "snapshot", id |-> Len(commits) + 1]
    /\ UNCHANGED wt
    /\ UNCHANGED notSnap

\* GitWorkspaceState.restore(snapshot_id) for an id that exists.
Restore(k) ==
    /\ k \in 1..Len(commits)
    /\ wt' = GitResetClean(wt, index, commits[k].tree)
    /\ index' = commits[k].tree
    /\ head' = k
    /\ snapOp' = [op |-> "restore", id |-> k]
    /\ UNCHANGED commits
    /\ UNCHANGED notSnap

NextSnap ==
    \/ \E n \in FileNames, c \in Contents : WsWrite(n, c)
    \/ \E c \in IgnoreContents : WsWrite(IgnoreFile, c)
    \/ \E n \in TreeNames : WsDelete(n)
    \/ Snapshot
    \/ \E k \in 1..(MaxSnapshots + 1) : Restore(k)

\* C6: for every id s returned by snapshot(label), after any later writes,
\* creations, deletions and snapshots, restore(s) leaves every file with the
\* bytes it had when s was taken: files created since are absent, files
\* deleted since are back.
C6_RestoreRoundTrip ==
    (snapOp.op = "restore" /\ commits[snapOp.id].snapshot)
        => wt = commits[snapOp.id].seen

(***************************************************************************)
(* SpecDeploy: DeployWebsiteTool, cleanup_deployments_for_session and the  *)
(* serving of deployment assets.  All sessions deploy into one persistent  *)
(* root; each call runs on its own thread, so the steps below are the      *)
(* separate file-system operations of the code.                            *)
(***************************************************************************)
IdBase == 100000

\* secrets.randbelow(900000)
RandSpan == 900000

\* How many of the 900000 six-digit ids the model draws from.
IdSpan == 2

Ids == IdBase..(IdBase + IdSpan - 1)

MaxDeploys == 2

MaxGen == 1

\* A directory carries the session id its deployment.json names and, to
\* tell deployments apart, the number of the deploy_website call it is from.
NoDir == [owner |-> <<"none", 0>>, manifest |-> FALSE, present |-> FALSE, n |-> 0]

\* workspace.session_id of the workspace session s is using now.
WorkspaceId(s) == <<s, wsGen[s]>>

IdleCall == [pc |-> "idle", id |-> IdBase, n |-> 0, owner |-> <<"none", 0>>, loaded |-> <<>>,
             removed |-> {}, targets |-> {}, existing |-> {}, force |-> FALSE]

\* An answer records the deployments already purged when it was given.
NoAsset == [id |-> IdBase, status |-> 0, n |-> 0, after |-> {}]

InitDeploy ==
    /\ dirs = [i \in Ids |-> NoDir]
    /\ manifest = <<>>
    /\ dp = [s \in Sessions |-> IdleCall]
    /\ del = [s \in Sessions |-> IdleCall]
    /\ wsGen = [s \in Sessions |-> 0]
    /\ nDeploys = 0
    /\ created = {}
    /\ purged = {}
    /\ asset = NoAsset

\* existing = {path.name for path in deploy_root.iterdir() if path.is_dir()}
ExistingIds == {i \in Ids : dirs[i].present}

\* _ensure_unique_target: the scan of the root, before the id is drawn.
\* force is the argument of the call.
DeployScan(s, force) ==
    /\ dp[s].pc = "idle"
    /\ nDeploys < MaxDeploys
    /\ nDeploys' = nDeploys + 1
    /\ dp' = [dp EXCEPT ![s] = [IdleCall EXCEPT !.pc = "draw",
                                                !.n = nDeploys + 1,
                                                !.owner = WorkspaceId(s),
                                                !.existing = ExistingIds,
                                                !.force = force]]
    /\ UNCHANGED <<dirs, manifest, del, wsGen, created, purged, asset>>
    /\ UNCHANGED notDeploy

\* _generate_deployment_id: `if deployment_id not in existing: return`
IdAcceptedIfTaken(token, existing) == token \in existing
IdAccepted(token, existing) == token \notin existing

\* _generate_deployment_id, one turn of its loop: token is what
\* secrets.randbelow(900000) + 100000 gave; a token of the scanned set is
\* dropped and the loop goes round again.
DeployDraw(s, token) ==
    /\ dp[s].pc = "draw"
    /\ dp' = [dp EXCEPT ![s].id = token,
                        ![s].pc = IF IdAccepted(token, dp[s].existing)
                                  THEN "check" ELSE "draw"]
    /\ UNCHANGED <<dirs, manifest, del, wsGen, nDeploys, created, purged, asset>>
    /\ UNCHANGED notDeploy

\* call(): `if target.exists()`: ToolError without force, rmtree with it.
DeployCheckTarget(s) ==
    /\ dp[s].pc = "check"
    /\ IF dirs[dp[s].id].present
       THEN IF dp[s].force
            THEN /\ dirs' = [dirs EXCEPT ![dp[s].id] = NoDir]
                 /\ dp' = [dp EXCEPT ![s].pc = "copy"]
            ELSE /\ dp' = [dp EXCEPT ![s] = IdleCall]
                 /\ UNCHANGED dirs
       ELSE /\ dp' = [dp EXCEPT ![s].pc = "copy"]
            /\ UNCHANGED dirs
    /\ UNCHANGED <<manifest, del, wsGen, nDeploys, created, purged, asset>>
    /\ UNCHANGED notDeploy

\* shutil.copytree(source, target): fails if the target has appeared since.
DeployCopy(s) ==
    /\ dp[s].pc = "copy"
    /\ IF dirs[dp[s].id].present
       THEN /\ dp' = [dp EXCEPT ![s] = IdleCall]
            /\ UNCHANGED dirs
       ELSE /\ dirs' = [dirs EXCEPT ![dp[s].id] =
                           [owner |-> dp[s].owner, manifest |-> FALSE, present |-> TRUE,
                            n |-> dp[s].n]]
            /\ dp' = [dp EXCEPT ![s].pc = "write_manifest"]
    /\ UNCHANGED <<manifest, del, wsGen, nDeploys, created, purged, asset>>
    /\ UNCHANGED notDeploy

\* deployment.json is written into the target; it fails if the directory
\* has been removed meanwhile.
DeployWriteManifest(s) ==
    /\ dp[s].pc = "write_manifest"
    /\ IF dirs[dp[s].id].present
       THEN /\ dirs' = [dirs EXCEPT ![dp[s].id].manifest = TRUE,
                                    ![dp[s].id].owner = dp[s].owner]
            /\ dp' = [dp EXCEPT ![s].pc = "load_index"]
       ELSE /\ dp' = [dp EXCEPT ![s] = IdleCall]
            /\ UNCHANGED dirs
    /\ UNCHANGED <<manifest, del, wsGen, nDeploys, created, purged, asset>>
    /\ UNCHANGED notDeploy

\* _update_index, first half: _load_index reads manifest.json.
DeployLoadIndex(s) ==
    /\ dp[s].pc = "load_index"
    /\ dp' = [dp EXCEPT ![s].pc = "write_index", ![s].loaded = manifest]
    /\ UNCHANGED <<dirs, manifest, del, wsGen, nDeploys, created, purged, asset>>
    /\ UNCHANGED notDeploy

\* The list _update_index writes: the entries read, without those of the
\* same id, the new summary first.
UpdatedIndex(entries, id, owner, n) ==
    <<[id |-> id, owner |-> owner, n |-> n]>> \o SelectSeq(entries, LAMBDA e : e.id # id)

\* _update_index, second half: _write_index; then the tool returns.
DeployWriteIndex(s) ==
    /\ dp[s].pc = "write_index"
    /\ manifest' = UpdatedIndex(dp[s].loaded, dp[s].id, dp[s].owner, dp[s].n)
    /\ created' = created \cup {[id |-> dp[s].id, owner |-> dp[s].owner, n |-> dp[s].n]}
    /\ dp' = [dp EXCEPT ![s] = IdleCall]
    /\ UNCHANGED <<dirs, del, wsGen, nDeploys, purged, asset>>
    /\ UNCHANGED notDeploy

\* The directories cleanup_deployments_for_session removes: those whose
\* deployment.json names the session.
OwnedDirs(owner) == {i \in Ids : dirs[i].present /\ dirs[i].manifest /\ dirs[i].owner = owner}

\* What delete_history does once its index work is over: _initialise_vm
\* gives the session a new workspace, and the call returns.
DeleteReturns(s, call) ==
    /\ wsGen' = [wsGen EXCEPT ![s] = @ + 1]
    /\ purged' = purged \cup call.targets
    /\ del' = [del EXCEPT ![s] = IdleCall]

\* delete_history -> _cleanup_workspace(remove_deployments=True) ->
\* cleanup_deployments_for_session: the scan of the root and the rmtree of
\* the session's directories.  With nothing removed the index is left alone.
DeleteScan(s) ==
    /\ del[s].pc = "idle"
    /\ wsGen[s] < MaxGen
    /\ LET owner == WorkspaceId(s)
           removed == OwnedDirs(owner)
           call == [IdleCall EXCEPT !.pc = "load_index", !.owner = owner,
                                    !.removed = removed,
                                    !.targets = {c \in created : c.owner = owner}]
       IN /\ dirs' = [i \in Ids |-> IF i \in removed THEN NoDir ELSE dirs[i]]
          /\ IF removed = {}
             THEN DeleteReturns(s, call)
             ELSE /\ del' = [del EXCEPT ![s] = call]
                  /\ UNCHANGED <<wsGen, purged>>
    /\ UNCHANGED <<manifest, dp, nDeploys, created, asset>>
    /\ UNCHANGED notDeploy

\* cleanup_deployments_for_session: _load_index
DeleteLoadIndex(s) ==
    /\ del[s].pc = "load_index"
    /\ del' = [del EXCEPT ![s].pc = "write_index", ![s].loaded = manifest]
    /\ UNCHANGED <<dirs, manifest, dp, wsGen, nDeploys, created, purged, asset>>
    /\ UNCHANGED notDeploy

\* cleanup_deployments_for_session: _write_index of the filtered entries,
\* after which delete_history returns.
DeleteWriteIndex(s) ==
    /\ del[s].pc = "write_index"
    /\ manifest' = SelectSeq(del[s].loaded, LAMBDA e : e.id \notin del[s].removed)
    /\ DeleteReturns(s, del[s])
    /\ UNCHANGED <<dirs, dp, nDeploys, created, asset>>
    /\ UNCHANGED notDeploy

\* _resolve_deployment_asset for index.html of deployment i: 200 if the
\* directory and the file are there, 404 otherwise.
AssetRequest(i) ==
    /\ asset' = IF dirs[i].present
                THEN [id |-> i, status |-> 200, n |-> dirs[i].n, after |-> purged]
                ELSE [id |-> i, status |-> 404, n |-> NoDir.n, after |-> purged]
    /\ asset' # asset
    /\ UNCHANGED <<dirs, manifest, dp, del, wsGen, nDeploys, created, purged>>
    /\ UNCHANGED notDeploy

NextDeploy ==
    \/ \E s \in Sessions, force \in BOOLEAN : DeployScan(s, force)
    \/ \E s \in Sessions, token \in Ids : DeployDraw(s, token)
    \/ \E s \in Sessions : DeployCheckTarget(s)
    \/ \E s \in Sessions : DeployCopy(s)
    \/ \E s \in Sessions : DeployWriteManifest(s)
    \/ \E s \in Sessions : DeployLoadIndex(s)
    \/ \E s \in Sessions : DeployWriteIndex(s)
    \/ \E s \in Sessions : DeleteScan(s)
    \/ \E s \in Sessions : DeleteLoadIndex(s)
    \/ \E s \in Sessions : DeleteWriteIndex(s)
    \/ \E i \in Ids : AssetRequest(i)

\* C7: for every deployment d created by session sigma, once
\* delete_history(sigma) has returned, the directory <deployments_root>/<d>
\* is gone, manifest.json has no entry for d, and a request for an asset of
\* d is answered 404.  (A deployment is told from a later one that drew the
\* same id by the number of the call that made it.)
C7_DeleteHistoryRemovesDeployments ==
    \A c \in purged :
        /\ ~(dirs[c.id].present /\ dirs[c.id].n = c.n)
        /\ \A k \in 1..Len(manifest) : manifest[k] # c
        /\ (c \in asset.after /\ asset.id = c.id /\ asset.n = c.n)
              => asset.status # 200

\* The deploy calls that hold an id.
HoldsId(s) == dp[s].pc \in {"check", "copy", "write_manifest", "load_index", "write_index"}

\* A step of a deploy call leaves every directory that is there in place,
\* with the deployment it was made by.
DeployKeepsDirs ==
    \A s \in Sessions :
        dp'[s] # dp[s]
            => \A i \in Ids :
                  dirs[i].present => (dirs'[i].present /\ dirs'[i].n = dirs[i].n)

\* C14: every allocated deployment id is a six-digit number of
\* 100000..999999 and names no existing directory at the moment its files
\* are copied, concurrent deploys included; no deploy call overwrites or
\* merges into the directory of another deployment.
C14_FreshIdNoOverwrite ==
    /\ [](\A s \in Sessions : HoldsId(s) => dp[s].id \in IdBase..(IdBase + RandSpan - 1))
    /\ [][\A s \in Sessions :
            (dp[s].pc = "copy" /\ dp'[s].pc = "write_manifest") => ~dirs[dp[s].id].present]_vars
    /\ [][DeployKeepsDirs]_vars

\* A turn of the loop of _generate_deployment_id that draws an id outside
\* the scanned set.
DeployDrawFree(s) ==
    \E token \in Ids : IdAccepted(token, dp[s].existing) /\ DeployDraw(s, token)

\* C15: deployment-id allocation eventually ends and returns a free id
\* whenever at least one id is unused, also when ids are already in use.
C15_AllocationTerminates ==
    \A s \in Sessions :
        (dp[s].pc = "draw" /\ dp[s].existing # Ids)
            ~> (dp[s].pc = "check" /\ dp[s].id \in Ids \ dp[s].existing)

\* C15 witness: an allocation made while a directory was there has returned
\* an id that is not that directory's.
C15_Witness ==
    \E s \in Sessions :
        /\ dp[s].pc = "check"
        /\ dp[s].existing # {}
        /\ dp[s].id \notin dp[s].existing

\* The deployments created and not cleaned: their deploy call has returned
\* and their directory is still the one that call made.
LiveDeployments ==
    {c \in created : dirs[c.id].present /\ dirs[c.id].n = c.n}

\* Deploys only: no deploy_website call is under way and no delete_history
\* call has been made.
DeployQuiescent ==
    \A s \in Sessions : dp[s].pc = "idle" /\ del[s].pc = "idle" /\ wsGen[s] = 0

\* C17: after any sequence of successful deploys, concurrent deploys by
\* different sessions included, manifest.json holds exactly one entry for
\* each deployment created and not cleaned, no entry is lost, and a deploy
\* puts its own entry at the head.
C17_ManifestListsEveryDeployment ==
    /\ [](DeployQuiescent
            => /\ \A c \in LiveDeployments :
                     Cardinality({k \in 1..Len(manifest) : manifest[k] = c}) = 1
               /\ \A k \in 1..Len(manifest) : manifest[k] \in LiveDeployments)
    /\ [][\A s \in Sessions :
            (dp[s].pc = "write_index" /\ dp'[s].pc = "idle")
                => (manifest' # <<>> /\ manifest'[1].n = dp[s].n)]_vars

(***************************************************************************)
(* SpecStore: SessionStore.get called from several threads.  A client id   *)
(* is None or a string, modelled as a sequence of tokens: a blank, or a    *)
(* visible character.                                                      *)
(***************************************************************************)
Threads == {"t1", "t2"}

Blank == " "

IdTokens == {Blank, "a"}

MaxIdLen == 2

RawIds == [none : BOOLEAN, text : SeqsUpTo(IdTokens, MaxIdLen)]

DefaultKey == <<"default">>

\* str.strip(): drop the blanks at both ends.
RECURSIVE LStrip(_)
LStrip(q) == IF q # <<>> /\ Head(q) = Blank THEN LStrip(Tail(q)) ELSE q

RECURSIVE RStrip(_)
RStrip(q) == IF q # <<>> /\ q[Len(q)] = Blank THEN RStrip(ButLast(q)) ELSE q

Strip(q) == LStrip(RStrip(q))

\* SessionStore._normalise: (client_id or "").strip() or "default"
Normalise(raw) ==
    LET cleaned == Strip(IF raw.none THEN <<>> ELSE raw.text)
    IN IF cleaned = <<>> THEN DefaultKey ELSE cleaned

\* SessionState.attach_client: self.client_id = (client_id or "").strip() or "default"
AttachClient(key) ==
    LET cleaned == Strip(key)
    IN IF cleaned = <<>> THEN DefaultKey ELSE cleaned

Keys == {Normalise(raw) : raw \in RawIds}

Free == "free"

\* `with self._lock`: the lock can be taken when no thread holds it.
LockAlwaysAvailable == TRUE
LockAvailable == lock = Free

NoClient == <<>>

IdleGet == [pc |-> "idle", raw |-> [none |-> TRUE, text |-> <<>>], create |-> TRUE,
            key |-> DefaultKey, session |-> 0, result |-> 0]

InitStore ==
    /\ sessions = [k \in Keys |-> 0]
    /\ objs = <<>>
    /\ lock = Free
    /\ th = [t \in Threads |-> IdleGet]

\* get(client_id, create=...) is called: key = self._normalise(client_id)
GetCall(t, raw, create) ==
    /\ th[t].pc = "idle"
    /\ th' = [th EXCEPT ![t] = [IdleGet EXCEPT !.pc = "acquire", !.raw = raw,
                                               !.create = create, !.key = Normalise(raw)]]
    /\ UNCHANGED <<sessions, objs, lock>>
    /\ UNCHANGED notStore

\* with self._lock:
GetAcquire(t) ==
    /\ th[t].pc = "acquire"
    /\ LockAvailable
    /\ lock' = t
    /\ th' = [th EXCEPT ![t].pc = "lookup"]
    /\ UNCHANGED <<sessions, objs>>
    /\ UNCHANGED notStore

\* session = self._sessions.get(key), and the branch taken on it
GetLookup(t) ==
    /\ th[t].pc = "lookup"
    /\ LET found == sessions[th[t].key]
       IN th' = [th EXCEPT ![t].session = found,
                           ![t].pc = IF found = 0 /\ th[t].create THEN "construct"
                                     ELSE IF found # 0 THEN "attach_existing"
                                     ELSE "release"]
    /\ UNCHANGED <<sessions, objs, lock>>
    /\ UNCHANGED notStore

\* session = SessionState()
GetConstruct(t) ==
    /\ th[t].pc = "construct"
    /\ objs' = Append(objs, [client |-> NoClient, madeFor |-> th[t].key])
    /\ th' = [th EXCEPT ![t].session = Len(objs) + 1, ![t].pc = "attach_new"]
    /\ UNCHANGED <<sessions, lock>>
    /\ UNCHANGED notStore

\* session.attach_client(key), on the new object or on the one found
GetAttach(t) ==
    /\ th[t].pc \in {"attach_new", "attach_existing"}
    /\ objs' = [objs EXCEPT ![th[t].session].client = AttachClient(th[t].key)]
    /\ th' = [th EXCEPT ![t].pc = IF th[t].pc = "attach_new" THEN "insert" ELSE "release"]
    /\ UNCHANGED <<sessions, lock>>
    /\ UNCHANGED notStore

\* self._sessions[key] = session
GetInsert(t) ==
    /\ th[t].pc = "insert"
    /\ sessions' = [sessions EXCEPT ![th[t].key] = th[t].session]
    /\ th' = [th EXCEPT ![t].pc = "release"]
    /\ UNCHANGED <<objs, lock>>
    /\ UNCHANGED notStore

\* return session: the with block ends and the lock is released
GetReturn(t) ==
    /\ th[t].pc = "release"
    /\ lock' = IF lock = t THEN Free ELSE lock
    /\ th' = [th EXCEPT ![t].pc = "done", ![t].result = th[t].session]
    /\ UNCHANGED <<sessions, objs>>
    /\ UNCHANGED notStore

NextStore ==
    \/ \E t \in Threads, raw \in RawIds, create \in BOOLEAN : GetCall(t, raw, create)
    \/ \E t \in Threads : GetAcquire(t)
    \/ \E t \in Threads : GetLookup(t)
    \/ \E t \in Threads : GetConstruct(t)
    \/ \E t \in Threads : GetAttach(t)
    \/ \E t \in Threads : GetInsert(t)
    \/ \E t \in Threads : GetReturn(t)

InCriticalSection == {"lookup", "construct", "attach_new", "attach_existing", "insert", "release"}

\* C10: under any interleaving of concurrent SessionStore.get calls, at most
\* one SessionState is ever created for a normalised client id, every
\* caller using that id receives the same object -- a caller asking for
\* creation always receives one -- the client id recorded on a stored
\* session is the key it is stored under, and lookup, creation and insertion
\* are done holding the lock.
C10_GetCreatesOnce ==
    /\ \A i, j \in 1..Len(objs) : objs[i].madeFor = objs[j].madeFor => i = j
    /\ \A t, u \in Threads :
          (th[t].pc = "done" /\ th[u].pc = "done" /\ th[t].key = th[u].key
              /\ th[t].result # 0 /\ th[u].result # 0)
          => th[t].result = th[u].result
    /\ \A t \in Threads : (th[t].pc = "done" /\ th[t].create) => th[t].result # 0
    /\ \A k \in Keys : sessions[k] # 0 => objs[sessions[k]].client = k
    /\ \A t \in Threads : th[t].pc \in InCriticalSection => lock = t

\* C10 witness: two callers that passed different raw ids with the same
\* normalised id, both asking for creation, have returned with the one
\* object made for it.
C10_Witness ==
    /\ th["t1"].pc = "done" /\ th["t2"].pc = "done"
    /\ th["t1"].create /\ th["t2"].create
    /\ th["t1"].raw # th["t2"].raw
    /\ th["t1"].key = th["t2"].key
    /\ th["t1"].result # 0
    /\ th["t1"].result = th["t2"].result
    /\ Len(objs) = 1

(***************************************************************************)
(* SpecSession: one SessionState and its VirtualMachine, called by one     *)
(* caller at a time: boot(), respond(message, replace_last) and            *)
(* delete_history().  A history entry is [id, role, content]; an id is the *)
(* pair of the history prefix (the workspace's session id) and the number  *)
(* drawn from the counter.  A reply is a sequence of text pieces.          *)
(***************************************************************************)
Messages == {"m1", "m2"}

Replies == {"a1", "a2"}

ErrPrefix == "An error occurred:"

Exceptions == {"boom"}

WelcomeMessage == "welcome"

\* The number up to which the model follows the id counter.
MaxIds == 6

MaxWorkspaces == 2

\* SessionState.__init__ / _initialise_vm with the n-th workspace.
FreshSession(n) ==
    [history |-> <<>>, counter |-> 1, booted |-> FALSE, ws |-> n,
     wsFiles |-> {}, deps |-> {}, uploads |-> {}, disk |-> {n}]

\* VirtualMachine._next_history_id: "<prefix>-<counter>"
NextHistoryId(s) == <<s.ws, s.counter>>

\* An id taken from the length of the history instead of the counter.
RecordHistoryEntryByLength(s, role, content) ==
    [s EXCEPT !.history = Append(@, [id |-> <<s.ws, Len(s.history) + 1>>, role |-> role,
                                     content |-> content]),
              !.counter = @ + 1]

\* VirtualMachine.record_history_entry
RecordHistoryEntryNoCount(s, role, content) ==
    [s EXCEPT !.history = Append(@, [id |-> NextHistoryId(s), role |-> role,
                                     content |-> content])]
RecordHistoryEntry(s, role, content) ==
    [s EXCEPT !.history = Append(@, [id |-> NextHistoryId(s), role |-> role,
                                     content |-> content]),
              !.counter = @ + 1]

\* What chain.invoke did: it returned a reply or raised; the tools it ran on
\* the way wrote a file or not, deployed a site or not.
Invocations ==
    [success : BOOLEAN, reply : Replies, exc : Exceptions,
     wrote : BOOLEAN, deployed : BOOLEAN]

\* VirtualMachine.execute, the history it leaves
ExecuteSession(s, message, inv) ==
    LET ran == [s EXCEPT !.wsFiles = IF inv.wrote THEN @ \cup {"out.html"} ELSE @,
                         !.deps = IF inv.deployed THEN @ \cup {s.counter} ELSE @]
    IN IF inv.success
       THEN RecordHistoryEntry(RecordHistoryEntry(ran, "user", message),
                               "assistant", inv.reply)
       ELSE ran

\* VirtualMachine.execute, the value it returns
ExecuteResult(inv) ==
    IF inv.success
    THEN [reply |-> <<inv.reply>>,
          tool_calls |-> (IF inv.wrote THEN <<"write_file">> ELSE <<>>)
                            \o (IF inv.deployed THEN <<"deploy_website">> ELSE <<>>)]
    ELSE [reply |-> <<ErrPrefix, inv.exc>>, tool_calls |-> <<>>]

\* vm.discard_last_exchange() on the session
DiscardSessionAlways(s) ==
    [s EXCEPT !.history = SubSeq(@, 1, IF Len(@) >= 2 THEN Len(@) - 2 ELSE 0)]
DiscardSession(s) == [s EXCEPT !.history = DiscardLastExchange(@)]

\* SessionState.boot, the session it leaves
BootResets(s) ==
    [RecordHistoryEntry(FreshSession(s.ws + 1), "assistant", WelcomeMessage)
        EXCEPT !.booted = TRUE]
BootSession(s) ==
    IF ~s.booted
    THEN [RecordHistoryEntry(s, "assistant", WelcomeMessage) EXCEPT !.booted = TRUE]
    ELSE s

\* SessionState.boot, the reply it returns
BootReply(s) ==
    IF ~s.booted THEN WelcomeMessage
    ELSE IF s.history # <<>> /\ s.history[1].role = "assistant"
         THEN s.history[1].content
         ELSE WelcomeMessage

NoInvocation ==
    [success |-> FALSE, reply |-> "a1", exc |-> "boom", wrote |-> FALSE, deployed |-> FALSE]

NoSessOp ==
    [op |-> "none", message |-> "m1", replace |-> FALSE, inv |-> NoInvocation,
     pre |-> FreshSession(1), mid |-> FreshSession(1),
     result |-> [reply |-> <<>>, tool_calls |-> <<>>]]

InitSession ==
    /\ sess = FreshSession(1)
    /\ sessOp = NoSessOp

\* GET /api/session/boot -> SessionState.boot
SessBoot ==
    /\ sess.counter < MaxIds
    /\ sess' = BootSession(sess)
    /\ sessOp' = [NoSessOp EXCEPT !.op = "boot", !.pre = sess, !.mid = sess,
                                  !.result = [reply |-> <<BootReply(sess)>>,
                                              tool_calls |-> <<>>]]
    /\ UNCHANGED notSess

\* POST /api/chat -> SessionState.respond: discard_last_exchange if
\* replace_last, then vm.execute.
SessRespond(message, replace, inv) ==
    /\ sess.counter + 1 < MaxIds
    /\ LET mid == IF replace THEN DiscardSession(sess) ELSE sess
       IN /\ sess' = ExecuteSession(mid, message, inv)
          /\ sessOp' = [op |-> "respond", message |-> message, replace |-> replace,
                        inv |-> inv, pre |-> sess, mid |-> mid,
                        result |-> ExecuteResult(inv)]
    /\ UNCHANGED notSess

\* VirtualMachine.reset_history alone: the history and the counter of ids
ResetHistoryOnly(s) == [s EXCEPT !.history = <<>>, !.counter = 1]

\* SessionState.delete_history: _cleanup_workspace(remove_deployments=True)
\* removes the internal_root of the workspace, _initialise_vm makes a new
\* workspace, registry, upload list and VirtualMachine.
DeleteHistory(s) ==
    [FreshSession(s.ws + 1) EXCEPT !.disk = (s.disk \ {s.ws}) \cup {s.ws + 1}]

\* SessionState.register_uploaded_files, for one file
SessRegisterUpload(name) ==
    /\ name \notin sess.uploads
    /\ sess' = [sess EXCEPT !.uploads = @ \cup {name}]
    /\ sessOp' = [NoSessOp EXCEPT !.op = "upload", !.pre = sess, !.mid = sess]
    /\ UNCHANGED notSess

\* DELETE /api/session/history -> SessionState.delete_history
SessDeleteHistory ==
    /\ sess.ws < MaxWorkspaces
    /\ sess' = DeleteHistory(sess)
    /\ sessOp' = [NoSessOp EXCEPT !.op = "delete_history", !.pre = sess, !.mid = sess]
    /\ UNCHANGED notSess

NextSession ==
    \/ SessBoot
    \/ \E m \in Messages, replace \in BOOLEAN, inv \in Invocations : SessRespond(m, replace, inv)
    \/ SessDeleteHistory

\* The calls on a session that has uploads, up to its reset.
NextReset ==
    \/ SessBoot
    \/ \E inv \in Invocations : SessRespond("m1", FALSE, inv)
    \/ \E name \in {"a.txt", "b.txt"} : SessRegisterUpload(name)
    \/ SessDeleteHistory

HistoryIds(h) == {h[i].id : i \in 1..Len(h)}

\* C11: VirtualMachine.execute(message) has exactly two outcomes.  On
\* success the history is what it was plus two entries, the user entry with
\* the message and then the assistant entry with the reply, each under an id
\* no entry carried before; on failure the reply begins "An error
\* occurred:", tool_calls is empty and the history is what it was.
C11_ExecuteOutcomes ==
    sessOp.op = "respond" =>
        LET before == sessOp.mid.history
            after == sess.history
            n == Len(before)
        IN IF sessOp.inv.success
           THEN /\ Len(after) = n + 2
                /\ SubSeq(after, 1, n) = before
                /\ after[n + 1].role = "user" /\ after[n + 1].content = sessOp.message
                /\ after[n + 2].role = "assistant" /\ after[n + 2].content = sessOp.inv.reply
                /\ after[n + 1].id # after[n + 2].id
                /\ {after[n + 1].id, after[n + 2].id} \cap HistoryIds(sessOp.pre.history) = {}
                /\ sessOp.result.reply = <<sessOp.inv.reply>>
           ELSE /\ after = before
                /\ Head(sessOp.result.reply) = ErrPrefix
                /\ sessOp.result.tool_calls = <<>>

\* C11 witness: a failed call that left a non-empty history as it was, its
\* tools having run before the failure.
C11_Witness ==
    /\ sessOp.op = "respond"
    /\ ~sessOp.inv.success
    /\ sessOp.inv.wrote
    /\ Len(sess.history) >= 3
    /\ sess.history = sessOp.mid.history

\* The history ends with a user entry followed by an assistant entry.
EndsWithPair(h) ==
    /\ Len(h) >= 2
    /\ h[Len(h) - 1].role = "user"
    /\ h[Len(h)].role = "assistant"

\* What a replace_last turn removes: the trailing pair if there is one,
\* nothing otherwise, never an earlier entry.
RemovesOnlyTrailingPair ==
    sessOp.mid.history =
        IF EndsWithPair(sessOp.pre.history)
        THEN SubSeq(sessOp.pre.history, 1, Len(sessOp.pre.history) - 2)
        ELSE sessOp.pre.history

\* The history has the length it had before the turn and ends with the new
\* user and assistant entries.
SameLengthNewPair ==
    LET n == Len(sess.history)
    IN /\ n = Len(sessOp.pre.history)
       /\ n >= 2
       /\ sess.history[n - 1].role = "user"
       /\ sess.history[n - 1].content = sessOp.message
       /\ sess.history[n].role = "assistant"
       /\ sess.history[n].content = sessOp.inv.reply
       /\ {sess.history[n - 1].id, sess.history[n].id}
             \cap HistoryIds(sessOp.pre.history) = {}

\* C12, as stated: a turn with replace_last removes the trailing user and
\* assistant entries only when the history ends with such a pair and never
\* an earlier entry, so regenerating the last answer leaves the history
\* with as many entries as before, ending with the new user and assistant
\* entries.
C12_RegenerateKeepsLength ==
    (sessOp.op = "respond" /\ sessOp.replace)
        => /\ RemovesOnlyTrailingPair
           /\ EndsWithPair(sessOp.pre.history) => SameLengthNewPair

\* C12, amended: the same, with the length kept when the model call
\* succeeds; when it fails the removed pair is not put back and the history
\* is the earlier one without its trailing pair.
C12_RegenerateKeepsLengthOnSuccess ==
    (sessOp.op = "respond" /\ sessOp.replace)
        => /\ RemovesOnlyTrailingPair
           /\ (EndsWithPair(sessOp.pre.history) /\ sessOp.inv.success) => SameLengthNewPair
           /\ ~sessOp.inv.success => sess.history = sessOp.mid.history

\* C12 witness: a successful regeneration after a welcome message and one
\* exchange: the welcome entry is kept, the exchange is replaced.
C12_Witness ==
    /\ sessOp.op = "respond" /\ sessOp.replace /\ sessOp.inv.success
    /\ Len(sessOp.pre.history) = 3
    /\ EndsWithPair(sessOp.pre.history)
    /\ Len(sess.history) = 3
    /\ sess.history[1] = sessOp.pre.history[1]
    /\ sess.history[3].id # sessOp.pre.history[3].id

\* The welcome entries of a history.
Welcomes(h) == {i \in 1..Len(h) : h[i].role = "assistant" /\ h[i].content = WelcomeMessage}

\* C13: a second or later boot() preserves the welcome message the first one
\* recorded and appends no other, keeps the same workspace id and paths, and
\* leaves every workspace file and every deployment in place.
C13_RebootPreservesSession ==
    (sessOp.op = "boot" /\ sessOp.pre.booted)
        => /\ sess.history = sessOp.pre.history
           /\ Welcomes(sess.history) = Welcomes(sessOp.pre.history)
           /\ sess.ws = sessOp.pre.ws
           /\ sess.wsFiles = sessOp.pre.wsFiles
           /\ sess.deps = sessOp.pre.deps
           /\ sess.booted
           /\ sessOp.result.reply = <<WelcomeMessage>>

\* C13 witness: a later boot of a session that has a welcome message, an
\* exchange, a workspace file and a deployment.
C13_Witness ==
    /\ sessOp.op = "boot" /\ sessOp.pre.booted
    /\ Len(sess.history) >= 3
    /\ Cardinality(Welcomes(sess.history)) = 1
    /\ sess.wsFiles # {}
    /\ sess.deps # {}

\* The session right after delete_history.
IsReset ==
    /\ sess.history = <<>>
    /\ sess.ws # sessOp.pre.ws
    /\ sess.counter = 1
    /\ NextHistoryId(sess) = <<sess.ws, 1>>
    /\ sess.uploads = {}
    /\ sessOp.pre.ws \notin sess.disk
    /\ sess.ws \in sess.disk

\* C25: delete_history() performs a full reset: afterwards the history is
\* empty, the workspace has a new id different from the old one, the history
\* id counter starts again from its initial value under the new workspace
\* id, the upload list is empty, the old internal_root no longer exists, and
\* the next boot() records a fresh welcome message.
C25_DeleteHistoryResets ==
    /\ [](sessOp.op = "delete_history" => IsReset)
    /\ [][(sessOp.op = "delete_history" /\ sessOp'.op = "boot")
            => /\ Len(sess'.history) = 1
               /\ Welcomes(sess'.history) = {1}
               /\ sess'.history[1].id = <<sess.ws, 1>>
               /\ sess'.ws = sess.ws]_vars

\* C25 witness: delete_history on a booted session with exchanges, uploads,
\* workspace files and deployments.
C25_Witness ==
    /\ sessOp.op = "delete_history"
    /\ sessOp.pre.booted
    /\ Len(sessOp.pre.history) >= 3
    /\ sessOp.pre.uploads # {}
    /\ sessOp.pre.wsFiles # {}
    /\ sessOp.pre.deps # {}

(***************************************************************************)
(* SpecAssets: _normalise_asset_path and _resolve_deployment_asset, which  *)
(* serve GET /?s=<id>&path=<path> and GET /<id>/<path>, over a host with   *)
(* one deployment and a file outside the deployments root.                 *)
(***************************************************************************)
MaxAssetLen == 2

IndexHtml == "index.html"

\* workspace.deployments_root
DeploymentsRoot == <<"deployments">>

SiteId == "100000"

\* A file of the host that no deployment holds.
HostSecret == <<"etc", "passwd">>

\* The symlink the shell tool can leave in a deployment, and where it points.
SiteLink == <<"deployments", SiteId, "l">>

SiteLinkTarget == <<"etc">>

AssetSegments == {"..", IndexHtml, "l", "passwd"}

\* The `path` of a request: absent, or a string given by whether it starts
\* with "/", its segments, whether it ends with "/", and whether blanks
\* surround it.
NoPath ==
    [none |-> TRUE, abs |-> FALSE, segs |-> <<>>, slash |-> FALSE, padded |-> FALSE]

AssetPaths ==
    {NoPath} \cup
    {r \in [none : {FALSE}, abs : BOOLEAN, segs : SeqsUpTo(AssetSegments, MaxAssetLen),
            slash : BOOLEAN, padded : BOOLEAN] :
        /\ r.slash => r.segs # <<>>
        /\ r.padded => (~r.abs /\ r.segs = <<>>)}

\* The deployment id of a request, a string: the query route takes any, the
\* /<id>/ routes take an integer.
AssetIds ==
    {[abs |-> FALSE, segs |-> <<SiteId>>], [abs |-> FALSE, segs |-> <<"100001">>],
     [abs |-> FALSE, segs |-> <<"..">>], [abs |-> TRUE, segs |-> <<"etc">>]}

\* pathlib's `base / other`: an absolute right-hand side replaces the base.
PathJoin(base, other) == IF other.abs THEN other.segs ELSE base \o other.segs

\* (relative_path or "index.html").strip(), as [abs, segs, slash]
PathHint(raw) ==
    IF raw.none \/ (~raw.abs /\ raw.segs = <<>> /\ ~raw.slash /\ ~raw.padded)
    THEN [abs |-> FALSE, segs |-> <<IndexHtml>>, slash |-> FALSE]
    ELSE [abs |-> raw.abs, segs |-> raw.segs,
          slash |-> raw.slash /\ raw.segs # <<>>]

\* The stripped string is empty / ends with "/".
HintEmpty(h) == ~h.abs /\ h.segs = <<>>

HintEndsWithSlash(h) == h.slash \/ (h.abs /\ h.segs = <<>>)

\* _normalise_asset_path: the candidate path, or the 400 it raises.
NormaliseAssetPath(raw) ==
    LET hint == PathHint(raw)
        full == IF HintEmpty(hint) \/ HintEndsWithSlash(hint)
                THEN Append(hint.segs, IndexHtml) ELSE hint.segs
    IN IF hint.abs \/ \E i \in 1..Len(full) : full[i] = ".."
       THEN [ok |-> FALSE, path |-> [abs |-> hint.abs, segs |-> full]]
       ELSE [ok |-> TRUE, path |-> [abs |-> FALSE, segs |-> full]]

HostDirs(fs) ==
    {<<>>, DeploymentsRoot, <<"etc">>}
        \cup UNION {{SubSeq(f, 1, n) : n \in 0..(Len(f) - 1)} : f \in fs.files}

\* resolved.relative_to(target_dir.resolve()) succeeds.
BeneathUnchecked(dir, p) == TRUE
Beneath(dir, p) == IsPrefix(dir, p)

\* _resolve_deployment_asset: the file it returns, or the 400 / 404 it raises.
\* Every session's workspace has the same deployments root, so the walk over
\* the sessions finds what its first turn finds; there is a session.
ResolveDeploymentAsset(fs, id, raw) ==
    LET cand == NormaliseAssetPath(raw)
        targetDir == PathJoin(DeploymentsRoot, id)
        realDir == RealPath(fs.links, targetDir)
        resolved == RealPath(fs.links, PathJoin(targetDir, cand.path))
    IN IF ~cand.ok THEN [status |-> 400, file |-> <<>>]
       ELSE IF realDir \notin HostDirs(fs) THEN [status |-> 404, file |-> <<>>]
       ELSE IF ~Beneath(realDir, resolved) THEN [status |-> 404, file |-> <<>>]
       ELSE IF resolved \in fs.files THEN [status |-> 200, file |-> resolved]
       ELSE [status |-> 404, file |-> <<>>]

NoAssetReq ==
    [id |-> [abs |-> FALSE, segs |-> <<SiteId>>],
     raw |-> NoPath,
     status |-> 0, file |-> <<>>]

InitAssets ==
    /\ hostFs = [files |-> {HostSecret}, links |-> [p \in {} |-> <<>>]]
    /\ assetReq = NoAssetReq

\* deploy_website has copied a site into <deployments_root>/<SiteId>/.
SiteDeployed ==
    /\ hostFs' = [hostFs EXCEPT !.files = @ \cup {DeploymentsRoot \o <<SiteId, IndexHtml>>}]
    /\ hostFs' # hostFs
    /\ assetReq' = NoAssetReq
    /\ UNCHANGED notAssets

\* The agent's shell tool runs `ln -s /etc <deployments_root>/<SiteId>/l`.
SiteSymlink ==
    /\ DeploymentsRoot \o <<SiteId>> \in HostDirs(hostFs)
    /\ SiteLink \notin DOMAIN hostFs.links
    /\ hostFs' = [hostFs EXCEPT !.links = [p \in {SiteLink} |-> SiteLinkTarget]]
    /\ assetReq' = NoAssetReq
    /\ UNCHANGED notAssets

\* GET /?s=<id>&path=<raw>, or GET /<id>/<raw> for an integer id.
ServeAsset(id, raw) ==
    /\ LET r == ResolveDeploymentAsset(hostFs, id, raw)
       IN assetReq' = [id |-> id, raw |-> raw, status |-> r.status, file |-> r.file]
    /\ UNCHANGED hostFs
    /\ UNCHANGED notAssets

NextAssets ==
    \/ SiteDeployed
    \/ SiteSymlink
    \/ \E id \in AssetIds, raw \in AssetPaths : ServeAsset(id, raw)

\* The request's path is absolute or has a ".." segment.
AbsoluteOrDotDot(raw) ==
    ~raw.none /\ (raw.abs \/ \E i \in 1..Len(raw.segs) : raw.segs[i] = "..")

\* The request's path is empty or ends with "/".
EmptyOrTrailingSlash(raw) ==
    raw.none \/ (~raw.abs /\ raw.segs = <<>>) \/ (raw.slash /\ raw.segs # <<>>)

\* C16: a request for a deployment asset is rejected (absolute path, or a
\* path containing ".."), or answered 404, or served from a file whose real
\* path lies beneath <deployments_root>/<id>/; an empty path or a trailing
\* slash serves index.html.
C16_AssetServedFromDeployment ==
    assetReq.status # 0
        => /\ assetReq.status \in {400, 404, 200}
           /\ assetReq.status = 400 <=> AbsoluteOrDotDot(assetReq.raw)
           /\ assetReq.status = 200
                => /\ assetReq.file \in hostFs.files
                   /\ IsPrefix(DeploymentsRoot \o assetReq.id.segs, assetReq.file)
                   /\ EmptyOrTrailingSlash(assetReq.raw)
                        => assetReq.file[Len(assetReq.file)] = IndexHtml

(***************************************************************************)
(* SpecUploads: POST /api/session/files (upload_session_files) with        *)
(* _sanitize_upload_filename, _persist_upload_file and                     *)
(* SessionState.register_uploaded_files, one request at a time.  Sizes are *)
(* counted in chunks; the limits are scaled down.                          *)
(***************************************************************************)
\* MAX_UPLOAD_FILES, scaled
MaxUploadFiles == 2

\* MAX_UPLOAD_SIZE_BYTES, scaled
MaxUploadSize == 2

\* Files in one request.
MaxBatch == 2

UploadNames == {"a", "b", "c"}

\* The filename of a part: possibly with a directory in front, its base
\* name a visible name, blanks only, or nothing.
UploadFilenames ==
    [dir : {FALSE}, base : UploadNames \cup {Blank, ""}] \cup [dir : {TRUE}, base : {"a"}]

\* Sizes at the limit and just above it.
UploadSizes == {MaxUploadSize, MaxUploadSize + 1}

UploadParts == [filename : UploadFilenames, size : UploadSizes]

UploadBatches == SeqsUpTo(UploadParts, MaxBatch)

\* _sanitize_upload_filename: Path(filename).name.strip(); "" stands for the
\* 400 it raises.
SanitizeUploadFilename(f) == IF f.base = Blank THEN "" ELSE f.base

NoFile == [size |-> 0, by |-> "none"]

\* _persist_upload_file: the mount directory it leaves and whether it
\* returned.  The file is opened for writing, chunks are written until the
\* size passes the limit, and the file is unlinked on the way out of a
\* failure.
PersistUploadKeepsPartial(disk, name, size) ==
    IF size > MaxUploadSize
    THEN [ok |-> FALSE,
          disk |-> [disk EXCEPT ![name] = [size |-> MaxUploadSize, by |-> "request"]]]
    ELSE [ok |-> TRUE, disk |-> [disk EXCEPT ![name] = [size |-> size, by |-> "request"]]]
PersistUpload(disk, name, size) ==
    IF size > MaxUploadSize
    THEN [ok |-> FALSE, disk |-> [disk EXCEPT ![name] = NoFile]]
    ELSE [ok |-> TRUE, disk |-> [disk EXCEPT ![name] = [size |-> size, by |-> "request"]]]

\* The loop over the sanitized parts, and the unlinking of the saved paths
\* when a part fails.
RECURSIVE PersistAll(_, _, _)
PersistAll(disk, parts, saved) ==
    IF parts = <<>> THEN [ok |-> TRUE, disk |-> disk]
    ELSE LET name == SanitizeUploadFilename(Head(parts).filename)
             r == PersistUpload(disk, name, Head(parts).size)
         IN IF r.ok THEN PersistAll(r.disk, Tail(parts), saved \cup {name})
            ELSE [ok |-> FALSE,
                  disk |-> [n \in UploadNames |-> IF n \in saved THEN NoFile ELSE r.disk[n]]]

\* A registration that appends a record for every file.
RECURSIVE RegisterAppendsAlways(_, _)
RegisterAppendsAlways(records, parts) ==
    IF parts = <<>> THEN records
    ELSE RegisterAppendsAlways(
             Append(records, [name |-> SanitizeUploadFilename(Head(parts).filename),
                              size |-> Head(parts).size]),
             Tail(parts))

\* SessionState.register_uploaded_files: a record of the same name is
\* replaced in place, a new one is appended.
RECURSIVE RegisterUploadedFiles(_, _)
RegisterUploadedFiles(records, parts) ==
    IF parts = <<>> THEN records
    ELSE LET name == SanitizeUploadFilename(Head(parts).filename)
             rec == [name |-> name, size |-> Head(parts).size]
             at == {i \in 1..Len(records) : records[i].name = name}
         IN RegisterUploadedFiles(
                IF at = {} THEN Append(records, rec)
                ELSE [i \in 1..Len(records) |-> IF i \in at THEN rec ELSE records[i]],
                Tail(parts))

BatchNames(parts) == {SanitizeUploadFilename(parts[i].filename) : i \in 1..Len(parts)}

RecordNames(records) == {records[i].name : i \in 1..Len(records)}

\* The sanitizing loop fails: a name is empty, or a name comes twice.
BadNames(parts) ==
    \/ "" \in BatchNames(parts)
    \/ Cardinality(BatchNames(parts)) < Len(parts)

\* projected_count
ProjectedCount(records, parts) == Cardinality(RecordNames(records) \cup BatchNames(parts))

BasePrompt == "base prompt"

UploadHeading == "## uploaded files"

\* SessionState._compose_system_prompt: the base prompt alone, or the base
\* prompt, the heading and one line for each upload record, in order.
ComposeSystemPrompt(records) ==
    IF records = <<>> THEN <<BasePrompt>>
    ELSE <<BasePrompt, UploadHeading>>
            \o [i \in 1..Len(records) |-> <<records[i].name, records[i].size>>]

\* VirtualMachine.update_system_prompt: the prompt becomes the installed one
UpdateSystemPrompt(st, prompt) == [st EXCEPT !.prompt = prompt]

\* upload_session_files: the state it leaves and the status it answers.
UploadSessionFiles(st, parts) ==
    IF parts = <<>> \/ BadNames(parts) THEN [status |-> 400, st |-> st]
    ELSE IF ProjectedCount(st.records, parts) > MaxUploadFiles
    THEN [status |-> 400, st |-> st]
    ELSE LET r == PersistAll(st.disk, parts, {})
         IN IF ~r.ok THEN [status |-> 413, st |-> [st EXCEPT !.disk = r.disk]]
            ELSE LET records == RegisterUploadedFiles(st.records, parts)
                 IN [status |-> 200,
                     st |-> UpdateSystemPrompt(
                                [st EXCEPT !.disk = r.disk, !.records = records],
                                ComposeSystemPrompt(records))]

NoUpload == [parts |-> <<>>, status |-> 0, pre |-> [n \in UploadNames |-> NoFile],
             records |-> <<>>]

InitUploads ==
    /\ upState = [disk |-> [n \in UploadNames |-> NoFile], records |-> <<>>,
                  prompt |-> ComposeSystemPrompt(<<>>)]
    /\ upReq = NoUpload

\* POST /api/session/files with the parts given.
UploadRequest(parts) ==
    /\ upReq.status = 0
    /\ LET r == UploadSessionFiles(upState, parts)
       IN /\ upState' = r.st
          /\ upReq' = [parts |-> parts, status |-> r.status, pre |-> upState.disk,
                       records |-> upState.records]
    /\ UNCHANGED notUploads

\* The response has been sent; the files of the request are now files of
\* the workspace like the others.
UploadReturn ==
    /\ upReq.status # 0
    /\ upState' = [upState EXCEPT !.disk =
                      [n \in UploadNames |->
                          IF @[n] = NoFile THEN NoFile ELSE [@[n] EXCEPT !.by = "earlier"]]]
    /\ upReq' = NoUpload
    /\ UNCHANGED notUploads

NextUploads ==
    \/ \E parts \in UploadBatches : UploadRequest(parts)
    \/ UploadReturn

\* Requests whose files are properly named, of a small size, of the largest
\* size allowed, or too large.
ListSizes == {1, MaxUploadSize, MaxUploadSize + 1}

ListBatches ==
    SeqsUpTo([filename : [dir : {FALSE}, base : UploadNames], size : ListSizes], MaxBatch)

NextUploadList ==
    \/ \E parts \in ListBatches : UploadRequest(parts)
    \/ UploadReturn

\* The limits of the claim: the resulting total and every size.
WithinLimits ==
    /\ Cardinality(RecordNames(upReq.records) \cup (BatchNames(upReq.parts) \ {""}))
          <= MaxUploadFiles
    /\ \A i \in 1..Len(upReq.parts) : upReq.parts[i].size <= MaxUploadSize

\* The request succeeded: every part is in the mount directory with its size
\* and has its record.
UploadSucceeded ==
    /\ upReq.status = 200
    /\ \A i \in 1..Len(upReq.parts) :
          LET name == SanitizeUploadFilename(upReq.parts[i].filename)
          IN /\ upState.disk[name] = [size |-> upReq.parts[i].size, by |-> "request"]
             /\ \E k \in 1..Len(upState.records) :
                   upState.records[k] = [name |-> name, size |-> upReq.parts[i].size]

\* The request failed with a 4xx, nothing it wrote remains, the records are
\* as they were.
UploadFailedCleanly ==
    /\ upReq.status \in 400..499
    /\ \A n \in UploadNames : upState.disk[n].by # "request"
    /\ upState.records = upReq.records

WellNamed == upReq.parts # <<>> /\ ~BadNames(upReq.parts)

NoneKey == "<None>"

\* An api key that is set: a non-empty string.
SecretKeys == {"k1", "k2"}

NoEndpoint ==
    [set |-> FALSE, model |-> "", base_url |-> "", api_key |-> NoneKey,
     supports_streaming |-> TRUE]

ChatEndpoints ==
    {NoEndpoint}
        \cup [set : {TRUE}, model : {"m1", "m2"}, base_url : {"u1"},
              api_key : {NoneKey, ""} \cup SecretKeys, supports_streaming : {TRUE}]
        \cup {[set |-> TRUE, model |-> "m1", base_url |-> "u1", api_key |-> "k1",
               supports_streaming |-> FALSE]}

ImageEndpoints ==
    {NoEndpoint,
     [set |-> TRUE, model |-> "m2", base_url |-> "u1", api_key |-> NoneKey,
      supports_streaming |-> TRUE],
     [set |-> TRUE, model |-> "m2", base_url |-> "u1", api_key |-> "k2",
      supports_streaming |-> TRUE]}

\* Config(chat=..., media=MediaConfig(image=...))
Configs == [chat : ChatEndpoints, image : ImageEndpoints]

\* `if self.api_key`
KeyIsSet(e) == e.api_key \notin {NoneKey, ""}

\* ModelEndpointConfig.describe: field name |-> value
DescribeWithKey(e) ==
    [f \in {"model", "base_url", "supports_streaming", "api_key"} |->
        IF f = "model" THEN e.model
        ELSE IF f = "base_url" THEN e.base_url
        ELSE IF f = "api_key" THEN e.api_key
        ELSE IF e.supports_streaming THEN "true" ELSE "false"]
Describe(e) ==
    [f \in {"model", "base_url", "supports_streaming"}
           \cup (IF KeyIsSet(e) THEN {"api_key_present"} ELSE {}) |->
        IF f = "model" THEN e.model
        ELSE IF f = "base_url" THEN e.base_url
        ELSE IF f = "api_key_present" THEN "true"
        ELSE IF e.supports_streaming THEN "true" ELSE "false"]

\* What stands for the null of an absent endpoint in a response.
NullDescription == [f \in {} |-> ""]

\* _describe_endpoint: describe(), with model and base_url set once more.
DescribeEndpoint(e) ==
    IF ~e.set THEN NullDescription
    ELSE [f \in DOMAIN Describe(e) |->
            IF f = "model" THEN e.model
            ELSE IF f = "base_url" THEN e.base_url
            ELSE Describe(e)[f]]

\* read_config: the body of the response
ReadConfigBody(c) == [chat |-> DescribeEndpoint(c.chat), image |-> DescribeEndpoint(c.image)]

\* configure(chat=..., media=...): a section that is None is left as it is;
\* a media section replaces every media endpoint.
ConfigureReplacesAll(c, chat, mediaGiven, image) == [chat |-> chat, image |-> image]
Configure(c, chat, mediaGiven, image) ==
    [chat |-> IF chat.set THEN chat ELSE c.chat,
     image |-> IF mediaGiven THEN image ELSE c.image]

\* The chat section of a POST /api/config body: not there, null, or an
\* object whose api_key and supports_streaming may be left out.
Omitted == "omitted"

NotGiven ==
    [given |-> FALSE, null |-> FALSE, model |-> Omitted, base_url |-> Omitted,
     api_key |-> Omitted, supports_streaming |-> Omitted]

NullSection == [NotGiven EXCEPT !.given = TRUE, !.null = TRUE]

ChatPayloads ==
    {NotGiven, NullSection}
        \cup [given : {TRUE}, null : {FALSE}, model : {"m1", "", Omitted}, base_url : {"u1"},
              api_key : {Omitted, NoneKey, Blank, "k2"},
              supports_streaming : {Omitted, "false"}]

\* The image section of the body: not there, null, or an object with or
\* without a model and an api key.
ImagePayloads ==
    {NotGiven, NullSection}
        \cup [given : {TRUE}, null : {FALSE}, model : {"m1", Omitted}, base_url : {"u1"},
              api_key : {Omitted, "k1"}, supports_streaming : {Omitted}]

\* The bodies sent: one section at a time, or both with the chat section
\* complete.
ConfigPayloads ==
    {p \in [chat : ChatPayloads, image : ImagePayloads] :
        (p.chat.given /\ p.image.given)
            => p.chat \in {NullSection,
                           [NotGiven EXCEPT !.given = TRUE, !.model = "m1", !.base_url = "u1"]}}

\* EndpointConfigPayload.to_model: strings are stripped, an endpoint without
\* model or base_url is None, an empty key is None.
ToModel(p) ==
    IF p.model \in {"", Omitted} \/ p.base_url \in {"", Omitted} THEN NoEndpoint
    ELSE [set |-> TRUE, model |-> p.model, base_url |-> p.base_url,
          api_key |-> IF p.api_key \in {Omitted, NoneKey, Blank, ""} THEN NoneKey
                      ELSE p.api_key,
          supports_streaming |-> p.supports_streaming # "false"]

\* update_config: the endpoint built from a section that is given, for
\* the chat section and in resolve_media alike: None for null and for an
\* object without model or base_url; an api key and a streaming flag left
\* out are taken from the endpoint configured now, if there is one.
UpdatedEndpoint(current, p) ==
    IF p.null THEN NoEndpoint
    ELSE LET m == ToModel(p)
         IN IF ~m.set THEN NoEndpoint
            ELSE [m EXCEPT
                    !.api_key = IF p.api_key = Omitted /\ current.set
                                THEN current.api_key ELSE @,
                    !.supports_streaming =
                        IF p.supports_streaming = Omitted /\ current.set
                        THEN current.supports_streaming ELSE @]

\* update_config: the configuration it leaves.  Without a section given
\* configure() is not called.
UpdateConfig(c, p) ==
    IF ~p.chat.given /\ ~p.image.given THEN c
    ELSE Configure(c,
                   IF p.chat.given THEN UpdatedEndpoint(c.chat, p.chat) ELSE NoEndpoint,
                   p.image.given,
                   UpdatedEndpoint(c.image, p.image))

EmptyConfig == [chat |-> NoEndpoint, image |-> NoEndpoint]

NoCfgOp ==
    [op |-> "none", payload |-> [chat |-> NotGiven, image |-> NotGiven], x |-> EmptyConfig, before |-> EmptyConfig, got |-> EmptyConfig,
     shared |-> FALSE, body |-> ReadConfigBody(EmptyConfig), described |-> NoEndpoint,
     description |-> NullDescription]

\* The module is loaded with no OKCVM_* variable in the environment.
InitConfig ==
    /\ cfg = EmptyConfig
    /\ cfgOp = NoCfgOp

\* configure(chat=x.chat, media=MediaConfig(image=x.image))
CfgConfigure(x) ==
    /\ cfg' = Configure(cfg, x.chat, TRUE, x.image)
    /\ cfgOp' = [NoCfgOp EXCEPT !.op = "configure", !.x = x, !.before = cfg]
    /\ UNCHANGED notConfig

\* get_config() right after a configure(x): _config.copy()
GetConfigSharesState(c) == [val |-> c, shared |-> TRUE]
GetConfig(c) == [val |-> c, shared |-> FALSE]

CfgGet ==
    /\ cfgOp.op = "configure"
    /\ cfgOp' = [cfgOp EXCEPT !.op = "get", !.got = GetConfig(cfg).val,
                              !.shared = GetConfig(cfg).shared, !.before = cfg]
    /\ UNCHANGED cfg
    /\ UNCHANGED notConfig

\* The caller assigns to a field of the configuration it was given; the
\* global one changes with it if the two are one object.
CfgMutateReturned(model) ==
    /\ cfgOp.op = "get"
    /\ cfgOp.got.chat.set
    /\ cfgOp.got.chat.model # model
    /\ cfgOp' = [cfgOp EXCEPT !.op = "mutate", !.got.chat.model = model]
    /\ cfg' = IF cfgOp.shared THEN [cfg EXCEPT !.chat.model = model] ELSE cfg
    /\ UNCHANGED notConfig

\* endpoint.describe() on an endpoint of the configuration
CfgDescribe(section) ==
    /\ cfgOp.op # "describe"
    /\ cfg[section].set
    /\ cfgOp' = [NoCfgOp EXCEPT !.op = "describe", !.described = cfg[section],
                                !.description = Describe(cfg[section])]
    /\ UNCHANGED cfg
    /\ UNCHANGED notConfig

\* GET /api/config
CfgRead ==
    /\ cfgOp.op # "read"
    /\ cfgOp' = [NoCfgOp EXCEPT !.op = "read", !.before = cfg, !.body = ReadConfigBody(cfg)]
    /\ UNCHANGED cfg
    /\ UNCHANGED notConfig

\* POST /api/config: update_config, which answers with read_config()
CfgUpdate(p) ==
    /\ cfg' = UpdateConfig(cfg, p)
    /\ cfgOp' = [NoCfgOp EXCEPT !.op = "update", !.before = cfg, !.payload = p,
                                !.body = ReadConfigBody(UpdateConfig(cfg, p))]
    /\ UNCHANGED notConfig

NextConfig ==
    \/ \E x \in Configs : CfgConfigure(x)
    \/ CfgGet
    \/ \E model \in {"m1", "m2"} : CfgMutateReturned(model)
    \/ \E section \in {"chat", "image"} : CfgDescribe(section)
    \/ CfgRead
    \/ \E p \in ConfigPayloads : CfgUpdate(p)

\* A description says nothing of the key of endpoint e but whether it is set.
HidesKey(d, e) ==
    /\ "api_key" \notin DOMAIN d
    /\ \A f \in DOMAIN d : d[f] # e.api_key \/ ~KeyIsSet(e)
    /\ ("api_key_present" \in DOMAIN d /\ d["api_key_present"] = "true") <=> KeyIsSet(e)

\* C19: for every endpoint configuration, the description returned by
\* describe() / _describe_endpoint and by the configuration read and update
\* endpoints never contains the api_key value, and its api_key_present field
\* is true if and only if an api key is set.
C19_DescriptionHidesApiKey ==
    /\ cfgOp.op = "describe" => HidesKey(cfgOp.description, cfgOp.described)
    /\ cfgOp.op \in {"read", "update"}
          => \A section \in {"chat", "image"} :
                cfg[section].set => HidesKey(cfgOp.body[section], cfg[section])

\* C19 witness: the update endpoint answers for a chat endpoint with a key
\* and an image endpoint with another.
C19_Witness ==
    /\ cfgOp.op = "update"
    /\ cfg.chat.set /\ cfg.chat.api_key = "k2"
    /\ cfg.image.set /\ cfg.image.api_key = "k2"
    /\ cfgOp.before.chat.api_key = "k1"
    /\ cfgOp.body.chat["api_key_present"] = "true"

\* The fields of an endpoint, which are also those of a section of an update.
EndpointFields == {"model", "base_url", "api_key", "supports_streaming"}

\* C21: a partial configuration update changes only the fields it
\* specifies: every endpoint not mentioned keeps its prior value, every
\* field not mentioned in a section keeps its prior value, and so an
\* endpoint updated without an api key keeps the key it had; this after any
\* sequence of updates.
C21_PartialUpdateMerges ==
    cfgOp.op = "update"
        => \A section \in {"chat", "image"} :
              LET p == cfgOp.payload[section]
              IN /\ ~p.given => cfg[section] = cfgOp.before[section]
                 /\ (p.given /\ ~p.null /\ cfgOp.before[section].set)
                       => \A f \in EndpointFields :
                             p[f] = Omitted
                                => /\ cfg[section].set
                                   /\ cfg[section][f] = cfgOp.before[section][f]

\* C20: configure(x) followed by get_config() returns a configuration equal
\* to x, also when a section of x such as the chat endpoint is unset; the
\* value returned is a copy, so changing it does not change what a later
\* get_config() returns.
C20_ConfigureThenGet ==
    /\ cfgOp.op = "get" => cfgOp.got = cfgOp.x
    /\ cfgOp.op = "mutate" => cfg = cfgOp.before

(***************************************************************************)
(* SpecConv: the ConversationStore (save_conversation, get_conversation,   *)
(* list_conversations, delete_conversation with _cleanup_workspace).  The  *)
(* table okc_conversations is the set rows; every call runs in one         *)
(* database session and is one step.  A text is a sequence of characters   *)
(* or of path segments, the empty sequence standing for a value that is    *)
(* absent or empty; the directories of the host have no symbolic links.    *)
(***************************************************************************)
ConvClients == {"A", "B"}

NoText == <<>>

\* get_config().workspace.resolve_path()
BaseDir == <<"ws">>

SessionRoot == <<"ws", "sessions", "x">>

HostEtc == <<"etc">>

\* The directories of the host when the store is created.
ConvDirs ==
    {<<>>, HostEtc, BaseDir, <<"ws", "sessions">>, SessionRoot,
     <<"ws", "deployments">>, <<"ws", "deployments", "s1">>}

\* A conversation payload: its id, title and createdAt, and the entries
\* internal_root, internalRoot and session_id of workspace.paths.
ConvPayload(id, title, createdAt, root, camelRoot, sid) ==
    [id |-> id, title |-> title, createdAt |-> createdAt, internal_root |-> root,
     internalRoot |-> camelRoot, session_id |-> sid]

NoPayload == ConvPayload(NoText, Absent, Absent, NoText, NoText, NoText)

ConvPayloads ==
    {ConvPayload(<<"c1">>, "t1", "T1Z", NoText, NoText, NoText),
     ConvPayload(<<"c1">>, Absent, Absent, NoText, NoText, NoText),
     ConvPayload(<<"c1">>, "t1", "T1Z", SessionRoot, NoText, <<"s1">>),
     ConvPayload(<<"c1">>, "t1", "T1Z", NoText, SessionRoot, NoText),
     ConvPayload(<<"c1">>, "t1", "T1Z", BaseDir, NoText, NoText),
     ConvPayload(<<"c1">>, "t1", "T1Z", HostEtc, NoText, <<"s1">>),
     ConvPayload(<<"c1">>, "t1", "T1Z", SessionRoot, NoText, <<"..", "..", "etc">>),
     ConvPayload(<<"c1">>, "t1", "T1Z", <<"ws", "sessions", "..", "..", "etc">>, NoText,
                 NoText),
     ConvPayload(<<Blank, "c1">>, "t1", "T1Z", NoText, NoText, NoText),
     ConvPayload(<<Blank>>, "t1", "T1Z", NoText, NoText, NoText),
     ConvPayload(<<"c2">>, "t1", "T1Z", NoText, NoText, NoText)}

\* The conversation ids a request names.
ConvIds == {p.id : p \in ConvPayloads}

\* _normalise_string: the stripped text, None for an empty one
NormaliseString(value) == Strip(value)

\* _now().isoformat()
NowUtc == "now+00:00"

\* _normalise_timestamp: the instant in UTC, the fallback for a value that
\* is no timestamp.
NormaliseTimestamp(value, fallback) == IF value = "T1Z" THEN "T1+00:00" ELSE fallback

\* The title of a conversation that has none.
DefaultTitle == "untitled"

\* save_conversation: the columns of the row written for payload p.
ConvRow(c, p) ==
    [id |-> NormaliseString(p.id), client_id |-> c, payload |-> p,
     title |-> IF p.title = Absent THEN DefaultTitle ELSE p.title,
     created_at |-> NormaliseTimestamp(p.createdAt, NowUtc),
     workspace_root |-> NormaliseString(IF p.internal_root # NoText THEN p.internal_root
                                        ELSE p.internalRoot),
     workspace_session |-> NormaliseString(p.session_id)]

\* session.get(ConversationRecord, conversation_id)
RowsWithId(table, id) == {r \in table : r.id = id}

\* `record.client_id != client_id`
OwnedByAnyone(record, c) == TRUE
OwnedBy(record, c) == record.client_id = c

\* save_conversation: ValueError without an id and for the row of another
\* client; otherwise the row is added, or replaced but for created_at.
SaveConversation(table, c, p) ==
    LET id == NormaliseString(p.id)
        found == RowsWithId(table, id)
    IN IF id = NoText THEN [ok |-> FALSE, rows |-> table]
       ELSE IF found = {} THEN [ok |-> TRUE, rows |-> table \cup {ConvRow(c, p)}]
       ELSE LET record == CHOOSE r \in found : TRUE
            IN IF ~OwnedBy(record, c) THEN [ok |-> FALSE, rows |-> table]
               ELSE [ok |-> TRUE,
                     rows |-> (table \ {record})
                                 \cup {[ConvRow(c, p) EXCEPT !.created_at = record.created_at]}]

\* _record_to_payload: the stored payload, with title, createdAt,
\* internal_root and session_id taken from the columns where it has none.
RecordToPayload(record) ==
    [record.payload EXCEPT
        !.title = IF @ = Absent THEN record.title ELSE @,
        !.createdAt = IF @ = Absent THEN record.created_at ELSE @,
        !.internal_root = IF @ = NoText THEN record.workspace_root ELSE @,
        !.session_id = IF @ = NoText THEN record.workspace_session ELSE @]

\* get_conversation
GetConversation(table, c, id) ==
    LET found == RowsWithId(table, id)
    IN IF found = {} \/ ~OwnedBy(CHOOSE r \in found : TRUE, c) THEN NoPayload
       ELSE RecordToPayload(CHOOSE r \in found : TRUE)

\* list_conversations
ListConversations(table, c) == {RecordToPayload(r) : r \in {q \in table : q.client_id = c}}

\* Path.resolve() where there are no symbolic links: `..` steps are taken,
\* none above the root.
RECURSIVE ResolveFrom(_, _)
ResolveFrom(done, rest) ==
    IF rest = <<>> THEN done
    ELSE ResolveFrom(IF Head(rest) = ".." THEN ButLast(done) ELSE Append(done, Head(rest)),
                     Tail(rest))

Resolve(path) == ResolveFrom(<<>>, path)

\* shutil.rmtree
RmTree(fs, dir) == {d \in fs : ~IsPrefix(dir, d)}

\* _cleanup_workspace: the directories it removes and those it leaves.
CleanupWorkspace(fs, payload) ==
    LET internal_root == IF payload.internal_root # NoText THEN payload.internal_root
                         ELSE payload.internalRoot
        resolved_root == Resolve(internal_root)
        rootGone == IF resolved_root \in fs THEN {resolved_root} ELSE {}
        fs1 == RmTree(fs, resolved_root)
        resolved_deployments == Resolve(BaseDir \o <<"deployments">> \o Strip(payload.session_id))
        deploymentsGone == IF Strip(payload.session_id) # NoText /\ resolved_deployments \in fs1
                           THEN {resolved_deployments} ELSE {}
    IN IF \/ Strip(internal_root) = NoText
          \/ ~IsPrefix(BaseDir, resolved_root)
          \/ resolved_root = BaseDir
       THEN [removed |-> {}, fs |-> fs]
       ELSE [removed |-> rootGone \cup deploymentsGone,
             fs |-> IF deploymentsGone = {} THEN fs1 ELSE RmTree(fs1, resolved_deployments)]

NoConvOp ==
    [op |-> "none", client |-> "A", id |-> NoText, payload |-> NoPayload, ok |-> FALSE,
     got |-> NoPayload, listed |-> {}, removed |-> {}, saved |-> NoPayload, savedBy |-> "A"]

\* ConversationStore.__init__: Base.metadata.create_all on a new database
InitConv ==
    /\ rows = {}
    /\ convFs = ConvDirs
    /\ convOp = NoConvOp

\* save_conversation(c, p)
ConvSave(c, p) ==
    /\ rows' = SaveConversation(rows, c, p).rows
    /\ convOp' = [NoConvOp EXCEPT !.op = "save", !.client = c, !.payload = p, !.id = p.id,
                                  !.ok = SaveConversation(rows, c, p).ok]
    /\ UNCHANGED convFs
    /\ UNCHANGED notConv

\* get_conversation(c, id); saved is the payload of the save just before it,
\* if that one succeeded.
ConvGet(c, id) ==
    /\ convOp' = [NoConvOp EXCEPT
                    !.op = "get", !.client = c, !.id = id,
                    !.got = GetConversation(rows, c, id),
                    !.ok = GetConversation(rows, c, id) # NoPayload,
                    !.saved = IF convOp.op = "save" /\ convOp.ok THEN convOp.payload
                              ELSE NoPayload,
                    !.savedBy = convOp.client]
    /\ UNCHANGED <<rows, convFs>>
    /\ UNCHANGED notConv

\* list_conversations(c)
ConvList(c) ==
    /\ convOp.op # "list"
    /\ convOp' = [NoConvOp EXCEPT !.op = "list", !.client = c, !.ok = TRUE,
                                  !.listed = ListConversations(rows, c)]
    /\ UNCHANGED <<rows, convFs>>
    /\ UNCHANGED notConv

\* delete_conversation(c, id)
ConvDelete(c, id) ==
    LET found == GetConversation(rows, c, id)
    IN /\ rows' = IF found = NoPayload THEN rows ELSE rows \ RowsWithId(rows, id)
       /\ convFs' = IF found = NoPayload THEN convFs ELSE CleanupWorkspace(convFs, found).fs
       /\ convOp' = [NoConvOp EXCEPT
                       !.op = "delete", !.client = c, !.id = id, !.ok = found # NoPayload,
                       !.got = found,
                       !.removed = IF found = NoPayload THEN {}
                                   ELSE CleanupWorkspace(convFs, found).removed]
       /\ UNCHANGED notConv

NextConv ==
    \/ \E c \in ConvClients, p \in ConvPayloads : ConvSave(c, p)
    \/ \E c \in ConvClients, id \in ConvIds : ConvGet(c, id)
    \/ \E c \in ConvClients : ConvList(c)
    \/ \E c \in ConvClients, id \in ConvIds : ConvDelete(c, id)

\* Payload g is payload p but for a timestamp put in UTC and for what the
\* columns of the row fill in where p has no value.
SameButSideFields(p, g) ==
    /\ g.id = p.id
    /\ g.internalRoot = p.internalRoot
    /\ p.title # Absent => g.title = p.title
    /\ p.createdAt # Absent => g.createdAt \in {p.createdAt, NormaliseTimestamp(p.createdAt, NowUtc)}
    /\ g.internal_root \in {p.internal_root} \cup (IF p.internal_root = NoText
                                                   THEN {p.internalRoot} ELSE {})
    /\ g.session_id = p.session_id

\* C22: for every client c and payload p, save_conversation(c, p) followed
\* by get_conversation(c, p.id) returns p, apart from timestamps put in UTC
\* and side fields filled in from the payload's workspace object; saving
\* again with the same id replaces the stored payload and adds no second row.
C22_SaveThenGetReturnsPayload ==
    /\ (convOp.op = "get" /\ convOp.saved # NoPayload /\ convOp.client = convOp.savedBy
            /\ convOp.id = convOp.saved.id)
          => (convOp.got # NoPayload /\ SameButSideFields(convOp.saved, convOp.got))
    /\ \A r1, r2 \in rows : r1.id = r2.id => r1 = r2
    /\ (convOp.op = "save" /\ convOp.ok)
          => \E r \in rows : r.id = NormaliseString(convOp.id) /\ r.payload = convOp.payload

\* C22 case: a client saves a payload and gets it back by its id.
C22_Case ==
    /\ convOp.op = "get" /\ convOp.saved # NoPayload /\ convOp.client = convOp.savedBy
    /\ convOp.id = convOp.saved.id
    /\ convOp.got # NoPayload

\* What a call of one client lets the other client see or change.
ConvIsolated ==
    /\ (convOp.op = "get" /\ convOp.got # NoPayload)
          => \E r \in rows : r.client_id = convOp.client /\ r.id = convOp.id
    /\ convOp.op = "list"
          => \A g \in convOp.listed :
                \E r \in rows : r.client_id = convOp.client /\ RecordToPayload(r) = g
    /\ (convOp.op \in {"get", "delete"}
            /\ \E r \in rows : r.id = convOp.id /\ r.client_id # convOp.client)
          => ~convOp.ok
    /\ (convOp.op = "save"
            /\ \E r \in rows : r.id = NormaliseString(convOp.id) /\ r.client_id # convOp.client)
          => ~convOp.ok

\* C23: a conversation saved by client A is never returned by get, listed,
\* overwritten or deleted through a call made with another client id B: get
\* and delete with B find nothing, a save with B for an id that A owns is
\* rejected, and every call leaves the rows of the other clients as they were.
C23_ClientsAreIsolated ==
    /\ []ConvIsolated
    /\ [][\A r \in rows : r.client_id # convOp'.client => r \in rows']_vars

\* C23 witness: B saves under an id, given with padding, that A owns; the
\* save is rejected.
C23_Witness ==
    /\ convOp.op = "save" /\ convOp.client = "B" /\ ~convOp.ok
    /\ convOp.id = <<Blank, "c1">>
    /\ \E r \in rows : r.client_id = "A" /\ r.id = <<"c1">> /\ r.payload.session_id = <<"s1">>

StrictlyBeneath(base, dir) == IsPrefix(base, dir) /\ dir # base

\* C24: whatever workspace paths and session_id a stored payload carries,
\* delete_conversation deletes no directory that is not strictly beneath the
\* workspace base, be it the workspace root of the payload or the
\* deployments directory made from session_id.
C24_DeleteStaysBeneathBase ==
    /\ convOp.op = "delete" => \A d \in convOp.removed : StrictlyBeneath(BaseDir, d)
    /\ \A d \in ConvDirs : ~StrictlyBeneath(BaseDir, d) => d \in convFs

(***************************************************************************)
(* SpecLookup: the HTTP requests that name a snapshot, a deployment or a   *)
(* history entry, on a session that takes snapshots, deploys a site and    *)
(* boots.                                                                  *)
(***************************************************************************)
NoLookup ==
    [kind |-> "none", snapshot |-> 0, deployment |-> [abs |-> FALSE, segs |-> <<SiteId>>],
     entry |-> <<0, 0>>, known |-> TRUE, status |-> 0]

InitLookup == lookup = NoLookup

\* POST /api/session/workspace/restore {snapshot_id}: GitWorkspaceState.restore
\* raises WorkspaceStateError when `git rev-parse` fails, which the route
\* answers with 400.
LookupSnapshot(k) ==
    /\ lookup' = [NoLookup EXCEPT !.kind = "snapshot", !.snapshot = k,
                                  !.known = k \in 1..Len(commits),
                                  !.status = IF k \in 1..Len(commits) THEN 200 ELSE 400]
    /\ IF k \in 1..Len(commits)
       THEN /\ wt' = GitResetClean(wt, index, commits[k].tree)
            /\ index' = commits[k].tree
            /\ head' = k
            /\ snapOp' = [op |-> "restore", id |-> k]
            /\ UNCHANGED commits
       ELSE UNCHANGED snapVars
    /\ UNCHANGED notSnapLookup

\* GET /?s=<id>: the index.html of deployment <id>
LookupDeployment(id) ==
    /\ lookup' = [NoLookup EXCEPT
                    !.kind = "deployment", !.deployment = id,
                    !.known = /\ id = [abs |-> FALSE, segs |-> <<SiteId>>]
                              /\ DeploymentsRoot \o <<SiteId>> \in HostDirs(hostFs),
                    !.status = ResolveDeploymentAsset(hostFs, id, NoPath).status]
    /\ UNCHANGED notLookup

\* VirtualMachine.get_history_entry
GetHistoryEntry(h, id) == {i \in 1..Len(h) : h[i].id = id}

\* GET /api/session/history/{entry_id}
LookupHistoryEntry(id) ==
    /\ lookup' = [NoLookup EXCEPT
                    !.kind = "history", !.entry = id,
                    !.known = id \in HistoryIds(sess.history),
                    !.status = IF GetHistoryEntry(sess.history, id) = {} THEN 404 ELSE 200]
    /\ UNCHANGED notLookup

NextLookup ==
    \/ \E c \in Contents : WsWrite("a.txt", c)
    \/ Snapshot
    \/ SiteDeployed
    \/ SessBoot
    \/ \E k \in 1..(MaxSnapshots + 2) : LookupSnapshot(k)
    \/ \E id \in AssetIds : LookupDeployment(id)
    \/ \E id \in {<<1, 1>>, <<1, 2>>} : LookupHistoryEntry(id)

\* C26: a request that names a snapshot id, a deployment id or a history
\* entry id that does not exist is answered with HTTP 404, for each of the
\* three kinds, and changes no state.
C26_UnknownIdIsNotFound ==
    /\ []((lookup.kind # "none" /\ ~lookup.known) => lookup.status = 404)
    /\ [][(lookup' # lookup /\ ~lookup'.known) => UNCHANGED notLookup]_vars

\* C26 case: an unknown history entry id is answered with 404.
C26_Case ==
    /\ lookup.kind = "history" /\ ~lookup.known /\ lookup.status = 404
    /\ sess.history # <<>>

(***************************************************************************)
(* SpecPreview: the preview and artifact URLs of a chat turn               *)
(* (_normalise_preview_url, then _append_client_id_to_url).  A URL is its  *)
(* scheme, host, path and query, the query a sequence of <<key, value>>.   *)
(***************************************************************************)
\* SessionState.client_id, set by attach_client
SessionClient == "alice"

LocalHosts == {"127.0.0.1", "localhost", "0.0.0.0"}

Url(scheme, host, path, query) ==
    [scheme |-> scheme, host |-> host, path |-> path, query |-> query]

\* preview_base_url: not configured, the local server, another host.
NoBase == Url("", "", "", <<>>)

PreviewBases ==
    {NoBase, Url("http", "127.0.0.1", "/", <<>>), Url("https", "preview.invalid", "/", <<>>)}

Queries ==
    {<<>>, <<<<"s", "1">>>>, <<<<"client_id", "bob">>>>, <<<<"client_id", "">>>>,
     <<<<"s", "1">>, <<"client_id", "bob">>>>, <<<<"s", "1">>, <<"s", "2">>>>}

\* The URLs tools return: relative ones, and absolute ones to the local
\* server, to the preview host and to another host.
PreviewUrls ==
    {Url("", "", path, q) : path \in {"/p", "p"}, q \in Queries}
        \cup {Url("http", host, "/p", q) :
                host \in LocalHosts \cup {"preview.invalid", "other.example"},
                q \in Queries}

\* urljoin(base, url) for a url without scheme and host: scheme and host of
\* the base; a path that is not rooted goes under the directory of the base.
UrlJoin(base, url) ==
    Url(base.scheme, base.host, IF url.path = "p" THEN "/p" ELSE url.path, url.query)

\* _normalise_preview_url
NormalisePreviewUrl(base, url) ==
    IF url.scheme # "" /\ url.host # "" THEN url
    ELSE IF base # NoBase THEN UrlJoin(base, url)
    ELSE url

QueryKeys(q) == {q[i][1] : i \in 1..Len(q)}

\* dict(parse_qsl(query, keep_blank_values=True)): one value per key, the
\* last one, in the order of the first occurrences.
RECURSIVE QueryDict(_, _)
QueryDict(seen, q) ==
    IF q = <<>> THEN <<>>
    ELSE IF Head(q)[1] \in seen THEN QueryDict(seen, Tail(q))
    ELSE LET key == Head(q)[1]
             last == CHOOSE i \in 1..Len(q) :
                        q[i][1] = key /\ \A j \in (i + 1)..Len(q) : q[j][1] # key
         IN <<<<key, q[last][2]>>>> \o QueryDict(seen \cup {key}, Tail(q))

\* query["client_id"] = client_id
SetClientId(d, client) ==
    IF "client_id" \in QueryKeys(d)
    THEN [i \in 1..Len(d) |-> IF d[i][1] = "client_id" THEN <<"client_id", client>> ELSE d[i]]
    ELSE Append(d, <<"client_id", client>>)

\* query.get("client_id")
HasClientId(q) == \E i \in 1..Len(q) : q[i][1] = "client_id" /\ q[i][2] # ""

\* _append_client_id_to_url
AppendToAnyHost(url, client) ==
    IF HasClientId(QueryDict({}, url.query)) THEN url
    ELSE [url EXCEPT !.query = SetClientId(QueryDict({}, url.query), client)]
AppendClientIdToUrl(url, client) ==
    IF url.scheme # "" /\ url.host # "" /\ url.host \notin LocalHosts THEN url
    ELSE AppendToAnyHost(url, client)

NoPreview == [url |-> NoBase, out |-> NoBase, seen |-> FALSE]

InitPreview ==
    /\ pvBase = NoBase
    /\ pvOp = NoPreview

\* configure(workspace=WorkspaceConfig(preview_base_url=base))
PreviewConfigure(base) ==
    /\ pvBase' = base
    /\ pvBase' # pvBase
    /\ pvOp' = NoPreview
    /\ UNCHANGED notPreview

\* respond: a tool output carries the URL url
PreviewFromContainer(url) ==
    /\ pvOp' = [url |-> url, seen |-> TRUE,
                out |-> AppendClientIdToUrl(NormalisePreviewUrl(pvBase, url), SessionClient)]
    /\ UNCHANGED pvBase
    /\ UNCHANGED notPreview

NextPreview ==
    \/ \E base \in PreviewBases : PreviewConfigure(base)
    \/ \E url \in PreviewUrls : PreviewFromContainer(url)

\* The values of the client_id parameters of a query, in order.
ClientIds(q) == SelectSeq(q, LAMBDA kv : kv[1] = "client_id")

\* The URL is relative, or absolute to the local host or to the configured
\* preview host.
LocalOrPreview(base, url) ==
    \/ url.scheme = "" /\ url.host = ""
    \/ url.host \in LocalHosts
    \/ base # NoBase /\ url.host = base.host

\* C27: for every preview URL returned by a chat turn, the session's
\* client_id is appended as a query parameter if and only if the URL has no
\* client_id parameter already and is relative or absolute to the local host
\* or the configured preview host; an absolute URL to any other host is
\* returned unchanged, and an existing client_id is never duplicated or
\* replaced.
C27_ClientIdAppended ==
    pvOp.seen
        => /\ ClientIds(pvOp.out.query) = <<<<"client_id", SessionClient>>>>
                <=> (~HasClientId(pvOp.url.query) /\ LocalOrPreview(pvBase, pvOp.url))
           /\ (pvOp.url.scheme # "" /\ ~LocalOrPreview(pvBase, pvOp.url)) => pvOp.out = pvOp.url
           /\ HasClientId(pvOp.url.query)
                => ClientIds(pvOp.out.query) = ClientIds(pvOp.url.query)

\* C27 case: a relative URL without client_id, no preview base configured,
\* comes back with the client id appended after its other parameter.
C27_Case ==
    /\ pvOp.seen /\ pvBase = NoBase
    /\ pvOp.url = Url("", "", "/p", <<<<"s", "1">>>>)
    /\ pvOp.out = Url("", "", "/p", <<<<"s", "1">>, <<"client_id", SessionClient>>>>)

(***************************************************************************)
(* SpecScroll: BrowserScrollTool on a page loaded in static mode, where    *)
(* the scroll position is a number kept in the browser session.            *)
(***************************************************************************)
\* The largest |scroll_amount| drawn.
MaxScroll == 3

\* The distance from zero up to which the model follows the position.
MaxPosition == 12

ScrollAmounts == (0 - MaxScroll)..MaxScroll

\* BrowserScrollTool.call in static mode: the new scroll position
ScrollDown(pos, amount) == IF pos + amount < amount THEN pos + amount ELSE amount

ScrollUp(pos, amount) == IF pos - amount > 0 THEN pos - amount ELSE 0

\* browser_visit has loaded a page: scroll_position = 0
InitScroll ==
    /\ scrollPos = 0
    /\ scrollOp = [op |-> "visit", amount |-> 0, url |-> "u1"]

\* mshtools-browser_visit loads another page
BrowserVisit(url) ==
    /\ scrollOp.url # url
    /\ scrollPos' = 0
    /\ scrollOp' = [op |-> "visit", amount |-> 0, url |-> url]
    /\ UNCHANGED notScroll

\* mshtools-browser_scroll_down
BrowserScrollDown(amount) ==
    /\ ScrollDown(scrollPos, amount) >= 0 - MaxPosition
    /\ scrollPos' = ScrollDown(scrollPos, amount)
    /\ scrollOp' = [scrollOp EXCEPT !.op = "scroll_down", !.amount = amount]
    /\ UNCHANGED notScroll

\* mshtools-browser_scroll_up
BrowserScrollUp(amount) ==
    /\ ScrollUp(scrollPos, amount) <= MaxPosition
    /\ scrollPos' = ScrollUp(scrollPos, amount)
    /\ scrollOp' = [scrollOp EXCEPT !.op = "scroll_up", !.amount = amount]
    /\ UNCHANGED notScroll

NextScroll ==
    \/ \E url \in {"u1", "u2"} : BrowserVisit(url)
    \/ \E amount \in ScrollAmounts : BrowserScrollDown(amount)
    \/ \E amount \in ScrollAmounts : BrowserScrollUp(amount)

\* C29: after any sequence of scroll_up(amount) and scroll_down(amount)
\* calls with any integer amounts, starting from any loaded page, the
\* virtual scroll position is greater than or equal to zero.
C29_ScrollPositionNotNegative == scrollPos >= 0

\* C29 case: scrolling up by more than the position stops at zero.
C29_Case ==
    /\ scrollOp.op = "scroll_up" /\ scrollOp.amount = MaxScroll
    /\ scrollPos = 0

(***************************************************************************)
(* SpecTools: the ToolRegistry.  from_default_spec reads the manifest and  *)
(* binds every name in it; call(name, **kwargs) hands the arguments to the *)
(* bound tool.  Three of the implemented tools stand for all of them.      *)
(***************************************************************************)
\* The keys of `mapping` in register_default_implementations, in order.
ImplementedTools == <<"mshtools-ipython", "mshtools-read_file", "mshtools-shell">>

\* Names a manifest can hold that have no implementation.
UnimplementedTools == {"mshtools-browser_x", "mshtools-x"}

ManifestNames == Range(ImplementedTools) \cup UnimplementedTools

\* The longest manifest drawn.
MaxManifestLen == 3

\* tools.json: the names of its functions, in order; a name can recur.
Manifests == SeqsUpTo(ManifestNames, MaxManifestLen)

\* name.startswith("mshtools-browser")
IsBrowserName(name) == name = "mshtools-browser_x"

BrowserStubMessage == "Browser automation is not included in the reference implementation."

StubMessage == "This tool is not yet implemented in OKCVM; contributions welcome!"

\* The keys of a dict built from the sequence q, in order of insertion.
RECURSIVE DictKeys(_, _)
DictKeys(seen, q) ==
    IF q = <<>> THEN <<>>
    ELSE IF Head(q) \in seen THEN DictKeys(seen, Tail(q))
    ELSE <<Head(q)>> \o DictKeys(seen \cup {Head(q)}, Tail(q))

ImplBinding(name) == [name |-> name, kind |-> "impl", message |-> ""]

StubBinding(name) ==
    [name |-> name, kind |-> "stub",
     message |-> IF IsBrowserName(name) THEN BrowserStubMessage ELSE StubMessage]

\* register_default_implementations: the register() calls it makes, first
\* for the implemented names that the manifest has, then a stub for every
\* other name of the manifest.
RegisterMappedOnly(specs) ==
    LET inManifest(n) == n \in Range(specs)
    IN [n \in 1..Len(SelectSeq(ImplementedTools, inManifest)) |->
            ImplBinding(SelectSeq(ImplementedTools, inManifest)[n])]
RegisterDefaultImplementations(specs) ==
    LET inManifest(n) == n \in Range(specs)
        notMapped(n) == n \notin Range(ImplementedTools)
        real == SelectSeq(ImplementedTools, inManifest)
        stubbed == SelectSeq(specs, notMapped)
    IN [n \in 1..Len(real) |-> ImplBinding(real[n])]
          \o [n \in 1..Len(stubbed) |-> StubBinding(stubbed[n])]

\* ToolRegistry._tools after the register() calls of log: the last binding
\* registered under each name.
ToolsOf(log) ==
    [name \in {log[i].name : i \in 1..Len(log)} |->
        log[CHOOSE i \in 1..Len(log) :
                log[i].name = name /\ \A j \in (i + 1)..Len(log) : log[j].name # name]]

\* ToolRegistry.from_default_spec for a manifest
FromDefaultSpec(names) ==
    LET specs == DictKeys({}, names)
        log == RegisterDefaultImplementations(specs)
    IN [built |-> TRUE, specs |-> specs, log |-> log, tools |-> ToolsOf(log)]

\* What a call meets: no arguments, arguments that work, a file that is not
\* there, a path outside the workspace, a command that exits non-zero with
\* or without output, a command that outlives its timeout, code that raises.
ToolCases ==
    {"no_args", "ok", "not_found", "violation", "exit_nonzero", "exit_silent", "timeout",
     "raises"}

Returned(success, error) == [raised |-> FALSE, exc |-> "", success |-> success, error |-> error]

Raised(exc) == [raised |-> TRUE, exc |-> exc, success |-> FALSE, error |-> ""]

\* ShellTool.call
ShellCall(case) ==
    IF case = "no_args" THEN Raised("ValueError")
    ELSE IF case = "not_found" THEN Raised("FileNotFoundError")
    ELSE IF case = "timeout" THEN Raised("TimeoutExpired")
    ELSE IF case = "exit_nonzero" THEN Returned(FALSE, "stdout and stderr")
    ELSE IF case = "exit_silent" THEN Returned(FALSE, "Command failed")
    ELSE Returned(TRUE, "")

\* ReadFileTool.call
ReadFileCall(case) ==
    IF case \in {"no_args", "not_found", "violation"} THEN Raised("ToolError")
    ELSE Returned(TRUE, "")

\* IPythonTool.call
IPythonCall(case) ==
    IF case = "no_args" THEN Returned(FALSE, "'code' argument is required")
    ELSE IF case = "raises" THEN Returned(FALSE, "Traceback")
    ELSE Returned(TRUE, "")

\* The cases that can arise with each tool.
CasesOf(name) ==
    IF name = "mshtools-shell"
    THEN {"no_args", "ok", "not_found", "exit_nonzero", "exit_silent", "timeout"}
    ELSE IF name = "mshtools-read_file" THEN {"no_args", "ok", "not_found", "violation"}
    ELSE IF name = "mshtools-ipython" THEN {"no_args", "ok", "raises"}
    ELSE {"no_args", "ok"}

\* ToolRegistry.call: get(name), then tool.call(**kwargs)
RegistryCallResult(reg, name, case) ==
    IF name \notin DOMAIN reg.tools THEN Raised("KeyError")
    ELSE IF reg.tools[name].kind = "stub" THEN Returned(FALSE, reg.tools[name].message)
    ELSE IF name = "mshtools-shell" THEN ShellCall(case)
    ELSE IF name = "mshtools-read_file" THEN ReadFileCall(case)
    ELSE IPythonCall(case)

NoRegistry == [built |-> FALSE, specs |-> <<>>, log |-> <<>>, tools |-> ToolsOf(<<>>)]

NoToolOp == [op |-> "none", name |-> "", case |-> "ok", outcome |-> Returned(TRUE, "")]

\* No registry has been built.
InitTools ==
    /\ registry = NoRegistry
    /\ toolOp = NoToolOp

\* Startup: ToolRegistry.from_default_spec()
RegistryStartup(names) ==
    /\ registry' = FromDefaultSpec(names)
    /\ toolOp' = [NoToolOp EXCEPT !.op = "startup"]
    /\ UNCHANGED notTools

\* registry.call(name, **kwargs)
RegistryCall(name, case) ==
    /\ registry.built
    /\ case \in CasesOf(name)
    /\ toolOp' = [op |-> "call", name |-> name, case |-> case,
                  outcome |-> RegistryCallResult(registry, name, case)]
    /\ UNCHANGED registry
    /\ UNCHANGED notTools

NextTools ==
    \/ \E names \in Manifests : RegistryStartup(names)
    \/ \E name \in ManifestNames, case \in ToolCases : RegistryCall(name, case)

\* C28: every failing tool invocation made through the registry (argument
\* validation failure, resource not found, workspace violation, subprocess
\* failure or timeout, external-service failure) returns a Tool Result with
\* success=false and a non-empty error message instead of raising; no Tool
\* Result ever has success=false with an empty error.
C28_FailuresAreResults ==
    (toolOp.op = "call" /\ toolOp.name \in DOMAIN registry.tools)
        => /\ toolOp.case # "ok"
                => (~toolOp.outcome.raised /\ ~toolOp.outcome.success)
           /\ (~toolOp.outcome.raised /\ ~toolOp.outcome.success)
                => toolOp.outcome.error # ""

\* C28 case: a shell command that exits non-zero without output comes back
\* as a failed Tool Result with an error message.
C28_Case ==
    /\ toolOp.op = "call" /\ toolOp.name = "mshtools-shell" /\ toolOp.case = "exit_silent"
    /\ toolOp.outcome = Returned(FALSE, "Command failed")

\* How many register() calls were made for a name.
TimesBound(log, name) == Cardinality({i \in 1..Len(log) : log[i].name = name})

\* C30: after startup, for every tool name n in the manifest,
\* registry.get(n) succeeds and returns exactly one bound tool: the real
\* implementation for n or a stub that always fails with the fixed
\* not-implemented message; no manifest name is left unbound and no name is
\* bound twice.
C30_ManifestFullyBound ==
    registry.built
        => /\ DOMAIN registry.tools = Range(registry.specs)
           /\ \A n \in Range(registry.specs) :
                 /\ TimesBound(registry.log, n) = 1
                 /\ registry.tools[n].name = n
                 /\ \/ registry.tools[n].kind = "impl" /\ n \in Range(ImplementedTools)
                    \/ /\ registry.tools[n].kind = "stub"
                       /\ registry.tools[n].message \in {StubMessage, BrowserStubMessage}
                       /\ RegistryCallResult(registry, n, "ok")
                             = Returned(FALSE, registry.tools[n].message)
                       /\ ((toolOp.op = "call" /\ toolOp.name = n)
                             => toolOp.outcome = Returned(FALSE, registry.tools[n].message))

\* C30 witness: a manifest with an implemented and an unimplemented tool;
\* the stub has been called.
C30_Witness ==
    /\ registry.built
    /\ Range(registry.specs) = {"mshtools-shell", "mshtools-x"}
    /\ registry.tools["mshtools-shell"].kind = "impl"
    /\ registry.tools["mshtools-x"].kind = "stub"
    /\ toolOp.op = "call" /\ toolOp.name = "mshtools-x" /\ toolOp.case = "no_args"

(***************************************************************************)
(* SpecWorkspace: one WorkspaceManager, its directory internal_root and    *)
(* the file tools that write through the manager.                          *)
(***************************************************************************)
WsmNames == {"a.txt", "b.txt", "c.txt"}

WsmContents == 1..2

\* The number of cleanup() calls followed.
MaxCleanups == 3

\* WorkspaceManager.__init__: internal_root exists, _cleaned is False
InitWsm ==
    /\ wsm = [exists |-> TRUE, files |-> <<>>, cleaned |-> FALSE]
    /\ wsmOp = [op |-> "init", returned |-> FALSE, cleanups |-> 0]

\* WorkspaceManager.cleanup: the manager afterwards and the value returned
Cleanup(w) ==
    IF w.cleaned THEN [w |-> w, returned |-> FALSE]
    ELSE IF ~w.exists THEN [w |-> [w EXCEPT !.cleaned = TRUE], returned |-> FALSE]
    ELSE [w |-> [exists |-> FALSE, files |-> <<>>, cleaned |-> TRUE],
          returned |-> TRUE]

WsmCleanup ==
    /\ wsmOp.cleanups < MaxCleanups
    /\ wsm' = Cleanup(wsm).w
    /\ wsmOp' = [op |-> "cleanup", returned |-> Cleanup(wsm).returned,
                 cleanups |-> wsmOp.cleanups + 1]
    /\ UNCHANGED notWsm

\* WriteFileTool.call with a relative path: workspace.resolve, then
\* path.parent.mkdir(parents=True, exist_ok=True) and the write
WsmWriteFile(name, content) ==
    /\ wsm' = [wsm EXCEPT !.exists = TRUE,
                          !.files = [n \in DOMAIN wsm.files \cup {name} |->
                                        IF n = name THEN content ELSE wsm.files[n]]]
    /\ wsmOp' = [wsmOp EXCEPT !.op = "write", !.returned = TRUE]
    /\ UNCHANGED notWsm

NextWorkspace ==
    \/ WsmCleanup
    \/ \E name \in WsmNames, content \in WsmContents : WsmWriteFile(name, content)

\* A step that is a call of cleanup().
IsCleanupCall == wsmOp'.cleanups = wsmOp.cleanups + 1

\* C31: cleanup() is idempotent: the first call returns true if the
\* directory existed, every later call returns false, and the directory is
\* absent after each call.
C31_CleanupIdempotent ==
    [][IsCleanupCall =>
          /\ ~wsm'.exists
          /\ wsmOp.cleanups = 0 => (wsmOp'.returned <=> wsm.exists)
          /\ wsmOp.cleanups > 0 => ~wsmOp'.returned]_vars

\* C31 case: cleanup() calls on a manager whose directory was not written
\* again after its removal.
C31_NotRecreated ==
    [][IsCleanupCall /\ (wsm.cleaned => ~wsm.exists) =>
          /\ ~wsm'.exists
          /\ wsmOp.cleanups = 0 => (wsmOp'.returned <=> wsm.exists)
          /\ wsmOp.cleanups > 0 => ~wsmOp'.returned]_vars

(***************************************************************************)
(* SpecClient: _resolve_client_id for one request.  A source (the explicit *)
(* parameter, the x-okc-client-id header, the okc_client_id cookie, the    *)
(* client_id query parameter) is None or a string, as in SpecStore.        *)
(***************************************************************************)
\* The values a source can have: None, or a string.
SourceValues == {raw \in RawIds : raw.none => raw.text = <<>>}

NoSource == [none |-> TRUE, text |-> <<>>]

\* `value and value.strip()`
Truthy(raw) == ~raw.none /\ raw.text # <<>> /\ Strip(raw.text) # <<>>

\* The query parameter looked at before the header.
ResolveQueryFirst(explicit, header, cookie, query) ==
    IF Truthy(explicit) THEN Strip(explicit.text)
    ELSE IF Truthy(query) THEN Strip(query.text)
    ELSE IF Truthy(header) THEN Strip(header.text)
    ELSE IF Truthy(cookie) THEN Strip(cookie.text)
    ELSE DefaultKey

\* _resolve_client_id(request, explicit)
ResolveClientId(explicit, header, cookie, query) ==
    IF Truthy(explicit) THEN Strip(explicit.text)
    ELSE IF Truthy(header) THEN Strip(header.text)
    ELSE IF Truthy(cookie) THEN Strip(cookie.text)
    ELSE IF Truthy(query) THEN Strip(query.text)
    ELSE DefaultKey

NoClientReq ==
    [via |-> "none", explicit |-> NoSource, header |-> NoSource, cookie |-> NoSource,
     query |-> NoSource, resolved |-> DefaultKey, key |-> DefaultKey]

InitClient == clientReq = NoClientReq

\* _get_session(request, client_id): the client id resolved and the key
\* under which session_store.get looks the session up
GetSession(via, explicit, header, cookie, query) ==
    LET resolved == ResolveClientId(explicit, header, cookie, query)
    IN [via |-> via, explicit |-> explicit, header |-> header, cookie |-> cookie,
        query |-> query, resolved |-> resolved,
        key |-> Normalise([none |-> FALSE, text |-> resolved])]

\* A request to an endpoint: its handler declares
\* `client_id: Optional[str] = Query(default=None)` and passes it on as the
\* explicit parameter.
ClientEndpoint(header, cookie, query) ==
    /\ clientReq.via = "none"
    /\ clientReq' = GetSession("endpoint", query, header, cookie, query)
    /\ UNCHANGED notClient

\* _get_session called with an explicit client id of its own
ClientExplicit(explicit, header, cookie, query) ==
    /\ clientReq.via = "none"
    /\ clientReq' = GetSession("call", explicit, header, cookie, query)
    /\ UNCHANGED notClient

\* One request is resolved, with any values of its sources.
NextClient ==
    \/ /\ clientReq.via = "none"
       /\ \E header \in SourceValues, cookie \in SourceValues, query \in SourceValues :
             ClientEndpoint(header, cookie, query)
    \/ /\ clientReq.via = "none"
       /\ \E explicit \in SourceValues, header \in SourceValues, cookie \in SourceValues,
             query \in SourceValues : ClientExplicit(explicit, header, cookie, query)

\* The sources of the request in their order of priority.
SourceOrder == <<clientReq.explicit, clientReq.header, clientReq.cookie, clientReq.query>>

\* A source that is a string of at least one character.
NonEmpty(raw) == ~raw.none /\ raw.text # <<>>

\* C32 as stated: the client id used is the first non-empty value in the
\* order explicit parameter, header, cookie, query parameter, and "default"
\* when there is none.
C32_FirstNonEmptyValue ==
    clientReq.via # "none" =>
        /\ \A i \in 1..4 :
              (NonEmpty(SourceOrder[i]) /\ \A j \in 1..(i - 1) : ~NonEmpty(SourceOrder[j]))
                  => clientReq.key = SourceOrder[i].text
        /\ (\A i \in 1..4 : ~NonEmpty(SourceOrder[i])) => clientReq.key = DefaultKey

\* A source with a character other than white space in it.
NonBlank(raw) == ~raw.none /\ \E i \in 1..Len(raw.text) : raw.text[i] # Blank

\* C32: for every request, the client id used is the first value, in the
\* order explicit parameter, x-okc-client-id header, okc_client_id cookie,
\* client_id query parameter, that is not blank, with the white space at its
\* ends removed, and otherwise the literal "default"; a lower-priority source
\* never overrides a higher-priority one that is not blank.
C32_FirstNonBlankValue ==
    clientReq.via # "none" =>
        /\ \A i \in 1..4 :
              (NonBlank(SourceOrder[i]) /\ \A j \in 1..(i - 1) : ~NonBlank(SourceOrder[j]))
                  => /\ clientReq.resolved = Strip(SourceOrder[i].text)
                     /\ clientReq.key = clientReq.resolved
        /\ (\A i \in 1..4 : ~NonBlank(SourceOrder[i])) => clientReq.key = DefaultKey

\* C32 witness: no explicit parameter, a header and a different cookie and
\* query parameter: the header is used.
C32_Witness ==
    /\ clientReq.via = "call"
    /\ clientReq.explicit = NoSource
    /\ clientReq.header = [none |-> FALSE, text |-> <<"a", Blank>>]
    /\ clientReq.cookie = [none |-> FALSE, text |-> <<"a", "a">>]
    /\ clientReq.query = [none |-> FALSE, text |-> <<"a", "a">>]
    /\ clientReq.key = <<"a">>

(***************************************************************************)
(* Further claims about the session's history and uploads                  *)
(***************************************************************************)
\* get_history_entry scans the history from its end: the entry it returns.
EntryReturned(h, id) ==
    LET found == GetHistoryEntry(h, id)
    IN h[CHOOSE i \in found : \A j \in found : j <= i]

\* Every id is <workspace session id>-<number drawn from the counter>, no
\* two entries share one, and get_history_entry finds each entry by its id.
HistoryIdsWellFormed ==
    /\ \A i \in 1..Len(sess.history) :
          /\ sess.history[i].id[1] = sess.ws
          /\ sess.history[i].id[2] \in 1..(sess.counter - 1)
          /\ EntryReturned(sess.history, sess.history[i].id) = sess.history[i]
    /\ \A i, j \in 1..Len(sess.history) :
          sess.history[i].id = sess.history[j].id => i = j

\* C36: within the lifetime of one workspace, every history entry has an id
\* of the form <workspace_session_id>-<nnnn>, the ids of all entries in the
\* history are pairwise distinct (also after entries were discarded by
\* replace_last and new ones appended), get_history_entry(id) returns the
\* entry that was recorded under that id, and an entry once appended is
\* never changed in place: an id found in the history before and after a
\* call names the same entry at the same place.
C36_HistoryIdsStable ==
    /\ []HistoryIdsWellFormed
    /\ [][sess'.ws = sess.ws =>
             \A i \in 1..Len(sess.history), j \in 1..Len(sess'.history) :
                 sess'.history[j].id = sess.history[i].id
                     => (j = i /\ sess'.history[j] = sess.history[i])]_vars

\* C36 witness: a turn with replace_last discarded the last exchange and
\* appended a new one, whose ids lie beyond the discarded ones.
C36_Witness ==
    /\ sessOp.op = "respond" /\ sessOp.replace /\ sessOp.inv.success
    /\ EndsWithPair(sessOp.pre.history)
    /\ Len(sess.history) = 3
    /\ sess.history[3].id = <<sess.ws, 5>>
    /\ sess.history[3].content # sessOp.pre.history[3].content

\* The upload records before the request, with the records of the files of
\* the request put in the place of those of the same name.
ReplacedInPlace ==
    LET before == upReq.records
        after == upState.records
        sizeIn(name) == LET k == CHOOSE k \in 1..Len(upReq.parts) :
                                    SanitizeUploadFilename(upReq.parts[k].filename) = name
                        IN upReq.parts[k].size
    IN /\ Len(after) >= Len(before)
       /\ \A i \in 1..Len(before) :
             /\ after[i].name = before[i].name
             /\ IF before[i].name \in BatchNames(upReq.parts)
                THEN after[i].size = sizeIn(before[i].name)
                ELSE after[i] = before[i]
       /\ \A i \in (Len(before) + 1)..Len(after) :
             /\ after[i].name \in BatchNames(upReq.parts) \ RecordNames(before)
             /\ after[i].size = sizeIn(after[i].name)

\* The installed prompt has one line for each upload record, in order, and
\* no other; without records it is the base prompt.
PromptEnumeratesUploads ==
    LET n == Len(upState.records)
    IN /\ Len(upState.prompt) = IF n = 0 THEN 1 ELSE n + 2
       /\ upState.prompt[1] = BasePrompt
       /\ \A i \in 1..n :
             upState.prompt[i + 2] = <<upState.records[i].name, upState.records[i].size>>

\* C37: after any sequence of register_uploaded_files calls, the session's
\* upload list contains at most one record per file name; uploading a name
\* again replaces the existing record for that name and keeps the order of
\* the other records, and the installed system prompt enumerates exactly
\* the current upload records.
C37_UploadListKeyedByName ==
    /\ \A i, j \in 1..Len(upState.records) :
          upState.records[i].name = upState.records[j].name => i = j
    /\ upReq.status = 200 => ReplacedInPlace
    /\ PromptEnumeratesUploads

\* C37 witness: with a and b uploaded in that order, a is uploaded again
\* with another size: its record is replaced where it stood.
C37_Witness ==
    /\ upReq.status = 200
    /\ Len(upReq.records) = 2
    /\ upReq.records[1].name = "a" /\ upReq.records[2].name = "b"
    /\ Len(upState.records) = 2
    /\ upState.records[1].name = "a"
    /\ upState.records[1].size # upReq.records[1].size
    /\ upState.records[2] = upReq.records[2]

\* C39: after any sequence of upload requests on a session, including
\* requests that fail part-way and requests that re-upload an existing name,
\* every record in the session's upload list refers to a file that exists
\* in the workspace with the content of its last successful upload; a
\* failed request never deletes or truncates a file of an earlier successful
\* upload.
C39_RecordsHaveTheirFiles ==
    \A i \in 1..Len(upState.records) :
        LET file == upState.disk[upState.records[i].name]
        IN file # NoFile /\ file.size = upState.records[i].size

\* C39 case: a request that fails on a name never uploaded before leaves
\* the earlier upload and its record as they were.
C39_Case ==
    /\ upReq.status = 413
    /\ Len(upReq.parts) = 1
    /\ upState.records = <<[name |-> "a", size |-> 1]>>
    /\ upReq.parts[1].filename.base = "b"
    /\ upState.disk["a"] = [size |-> 1, by |-> "earlier"]

(***************************************************************************)
(* A further claim about the deployment store                              *)
(***************************************************************************)
\* The workspace session a delete_history call of s is cleaning up.
CleanedOwner(s) == IF del[s].pc = "idle" THEN WorkspaceId(s) ELSE del[s].owner

\* C38: delete_history of a session removes only what belongs to it: every
\* deployment directory of a different session is still there afterwards as
\* it was, every manifest.json entry of a different session is still
\* present and unchanged, and the workspace of every other session is
\* untouched, including when another session deploys while the cleanup
\* runs.
C38_DeleteHistoryTouchesOwnOnly ==
    [][\A s \in Sessions :
          del'[s] # del[s] =>
              /\ \A i \in Ids :
                    (dirs[i].present /\ dirs[i].owner # CleanedOwner(s))
                        => dirs'[i] = dirs[i]
              /\ \A k \in 1..Len(manifest) :
                    manifest[k].owner # CleanedOwner(s)
                        => manifest[k] \in Range(manifest')
              /\ \A t \in Sessions \ {s} : wsGen'[t] = wsGen[t]]_vars

\* C38 case: a session with a deployment was cleaned up while the deployment
\* of another session was there: that one is still listed and on disk.
C38_Case ==
    \E s \in Sessions, c \in LiveDeployments :
        /\ wsGen[s] = 1 /\ del[s].pc = "idle"
        /\ purged # {}
        /\ c.owner[1] # s
        /\ c \in Range(manifest)

(***************************************************************************)
(* A further claim about the workspace snapshots                           *)
(***************************************************************************)
\* The default limit of list_snapshots.
ListLimit == 20

\* git log -n<limit>: HEAD and its ancestors, newest first
RECURSIVE GitLog(_, _)
GitLog(k, limit) ==
    IF k = 0 \/ limit = 0 THEN <<>>
    ELSE <<k>> \o GitLog(commits[k].parent, limit - 1)

\* GitWorkspaceState.list_snapshots: the ids it returns
ListSnapshots(limit) == GitLog(head, limit)

\* The ids snapshot() has returned.
SnapshotIds == {k \in 1..Len(commits) : commits[k].snapshot}

\* C40: every snapshot id returned by snapshot() stays restorable for the
\* lifetime of the workspace and stays listed by list_snapshots (within its
\* limit) after any later sequence of snapshot and restore calls; in
\* particular, after restore(s1) of an older snapshot, a newer snapshot s2
\* is still listed and restore(s2) still succeeds.
C40_SnapshotsStayListed ==
    \A k \in SnapshotIds :
        /\ ENABLED Restore(k)
        /\ k \in Range(ListSnapshots(ListLimit))

\* C40 case: two snapshots and no restore: both are listed, newest first.
C40_Case ==
    /\ Len(commits) = 3 /\ head = 3
    /\ ListSnapshots(ListLimit) = <<3, 2, 1>>

\* The state after construction: no tool call, no request, fresh workspaces,
\* an empty deployment root, an empty session store, a new session, no
\* deployment on the host, no upload, an empty configuration, an empty
\* conversation table, no preview base URL, a page just loaded, no registry,
\* a workspace manager just made, no request resolved, nothing published.
Init == InitPaths /\ InitChat /\ InitSnap /\ InitDeploy /\ InitStore /\ InitSession /\ InitAssets /\ InitUploads /\ InitConfig /\ InitConv /\ InitLookup /\ InitPreview /\ InitScroll /\ InitTools /\ InitWsm /\ InitClient /\ InitStream

SpecPaths == Init /\ [][NextPaths]_vars

SpecChat == Init /\ [][NextChat]_vars

SpecSnap == Init /\ [][NextSnap]_vars

SpecDeploy == Init /\ [][NextDeploy]_vars

SpecStore == Init /\ [][NextStore]_vars

SpecSession == Init /\ [][NextSession]_vars

SpecAssets == Init /\ [][NextAssets]_vars

SpecUploads == Init /\ [][NextUploads]_vars

SpecConfig == Init /\ [][NextConfig]_vars

SpecConv == Init /\ [][NextConv]_vars

SpecReset == Init /\ [][NextReset]_vars

SpecLookup == Init /\ [][NextLookup]_vars

SpecPreview == Init /\ [][NextPreview]_vars

SpecScroll == Init /\ [][NextScroll]_vars

SpecTools == Init /\ [][NextTools]_vars

SpecWorkspace == Init /\ [][NextWorkspace]_vars

SpecClient == Init /\ [][NextClient]_vars

SpecUploadList == Init /\ [][NextUploadList]_vars

\* The state in which the bus of request BusId is in use on its own.
InitWithBus == InitPaths /\ InitBus /\ InitSnap /\ InitDeploy /\ InitStore /\ InitSession /\ InitAssets /\ InitUploads /\ InitConfig /\ InitConv /\ InitLookup /\ InitPreview /\ InitScroll /\ InitTools /\ InitWsm /\ InitClient /\ InitStream

\* The state in which both requests stream and their publishers are in use.
InitWithStreams == InitPaths /\ InitBothStreaming /\ InitSnap /\ InitDeploy /\ InitStore /\ InitSession /\ InitAssets /\ InitUploads /\ InitConfig /\ InitConv /\ InitLookup /\ InitPreview /\ InitScroll /\ InitTools /\ InitWsm /\ InitClient /\ InitStream

\* deploy_website calls alone.
NextAlloc ==
    \/ \E s \in Sessions, force \in BOOLEAN : DeployScan(s, force)
    \/ \E s \in Sessions, token \in Ids : DeployDraw(s, token)
    \/ \E s \in Sessions : DeployCheckTarget(s)
    \/ \E s \in Sessions : DeployCopy(s)
    \/ \E s \in Sessions : DeployWriteManifest(s)
    \/ \E s \in Sessions : DeployLoadIndex(s)
    \/ \E s \in Sessions : DeployWriteIndex(s)

\* secrets.randbelow draws uniformly, so a loop that keeps drawing does draw
\* an id outside a set that leaves one out; the thread of the call keeps
\* running.
SpecAllocFair ==
    Init /\ [][NextAlloc]_vars /\ \A s \in Sessions : WF_vars(DeployDrawFree(s))

SpecStreams == InitWithStreams /\ [][NextStreams]_vars

SpecBus == InitWithBus /\ [][NextBus]_vars

\* The event loop keeps running ready callbacks and the response keeps
\* pulling frames from iter_sse().
SpecBusFair ==
    /\ SpecBus
    /\ WF_vars(BusRunCallback)
    /\ WF_vars(BusIterGet)
    /\ WF_vars(BusIterResume)

====
